---- MODULE Spec2Model ----
(***************************************************************************)
(* Model of the Pyrus API client (package pyrus, api.go).                  *)
(*                                                                         *)
(* The transport part models Client.performRequest together with           *)
(* Client.getAndSetAccessToken and Client.Auth as a state machine run by   *)
(* several concurrent callers that share one access token guarded by a     *)
(* sync.RWMutex.  The server is the environment: every HTTP exchange       *)
(* either fails at transport level or returns an arbitrary response.       *)
(*                                                                         *)
(* The webhook part models the handler returned by Client.WebhookHandler,  *)
(* run by the HTTP server for concurrent requests, and the consumer of the *)
(* event channel.                                                          *)
(*                                                                         *)
(* The form field part models FormField.UnmarshalJSON (entries.go) as a    *)
(* function of the document it is given.                                   *)
(***************************************************************************)
EXTENDS Integers, Sequences, FiniteSets, TLC

(* ------------------------------ bounds -------------------------------- *)

\* Longest per-call event history that is recorded (longer histories are cut).
MaxLog == 8

\* Concurrent callers of the client.
Calls == {"c1", "c2"}

\* The caller that runs alone, with its history recorded, in SpecCall.
Solo == "c1"

\* Largest event buffer size a client is constructed with.
MaxBuffer == 2

\* eventBufferSize of a client constructed without WithEventBufferSize.
DefaultEventBufferSize == 100

\* Webhook requests served in one behavior.
MaxReq == 3

\* Goroutines of the HTTP server that run the webhook handler.
Hooks == {"h1", "h2"}

\* The goroutine that serves all requests in SpecHookSolo.
HookSolo == "h1"

(* ----------------------------- vocabulary ------------------------------ *)

NoCall == "nobody"
NoHeader == "no-header"
Unset == "unset"

\* Access tokens an authentication response can carry.
Tokens == {"t1", "t2"}

\* Public operations, by the shape of their reqBody/respBody arguments:
\*   "api"      respBody is a response struct      (Profile, Forms, ...)
\*   "nobody"   respBody is nil                    (AddCallDetails, RegisterCallEvent)
\*   "download" reqBody is a buffer, respBody *string  (DownloadFile)
\*   "auth"     path is "/auth", respBody *AuthResponse (Auth)
\*   "upload"   reqBody is a *fileRequest, respBody a struct (UploadFile)
Kinds == {"api", "nobody", "download", "auth", "upload"}

\* Bytes of the file behind the io.Reader given to UploadFile.
FileBytes == <<"x", "y">>

\* An HTTP request as performRequest builds it (lines 152-208); bytes is the
\* content of the body, for a multipart body the content of its part.
Request(method, path, enc, ctype, part, bytes) ==
    [method |-> method, path |-> path, enc |-> enc, ctype |-> ctype, part |-> part, bytes |-> bytes]

NoRequestBuilt == Request("", "", "unbuilt", "", "", <<>>)

\* HTTP statuses the server answers with.
Statuses == {200, 401, 500}

\* Bodies of a response that is decoded as JSON:
\*   "tok"  {"access_token": v}        "res"  {"data": v} (an operation's result)
\*   "err"  {"error_code": v, ...}     "null" the JSON literal null
\*   "bad"  a body that is not JSON
JsonBodies ==
    {[k |-> "tok", v |-> t] : t \in Tokens}
        \cup {[k |-> "res", v |-> "d1"], [k |-> "err", v |-> "invalid_token"],
              [k |-> "null", v |-> ""], [k |-> "bad", v |-> ""]}

\* Content-Disposition of a response with a non-JSON content type:
\*   "baddisp" missing or malformed   "inline" a type other than attachment
\*   "noname"  attachment without filename
\*   "named"   attachment; filename=v  "cut" the same, body read fails
FileBodies ==
    {[k |-> "baddisp", v |-> ""], [k |-> "inline", v |-> ""], [k |-> "noname", v |-> ""],
     [k |-> "named", v |-> "f1"], [k |-> "cut", v |-> "f1"]}

\* ct: "json" application/json, "none" no (parsable) Content-Type, "file" any other type.
Responses ==
    {[st |-> s, ct |-> c, k |-> b.k, v |-> b.v] : s \in Statuses, c \in {"json", "none"}, b \in JsonBodies}
        \cup {[st |-> s, ct |-> "file", k |-> b.k, v |-> b.v] : s \in Statuses, b \in FileBodies}

\* Status recorded for an exchange that failed at transport level (no response).
Failed == 0

NoResp == [st |-> Failed, ct |-> "none", k |-> "null", v |-> ""]
NoResult == [err |-> "pending", code |-> "", val |-> Unset]

\* Raw bodies of webhook requests: "b1" and "b2" are JSON documents that
\* decode as an Event, "bx" is not.
Bodies == {"b1", "b2", "bx"}

\* Characters of a signature header: hex digits in both letter cases.
SigChars == {"a", "A", "1"}

\* Values of the X-Pyrus-Sig header (<<>> when the header is missing).
SigHeaders ==
    {<<>>} \cup {<<x>> : x \in SigChars} \cup {<<x, y>> : x \in SigChars, y \in SigChars}

NoBody == "no-body"
NoEvent == "no-event"

\* No response status has been written.
NoStatus == 0

\* A JSON value as the decoder sees it.  k is its kind ("absent" when the
\* document has no "value" key); s the characters of a string; lit the
\* literal of a number; o the members of an object as <<key, kind, text>>;
\* a the kinds of the elements of an array.
JV(k, s, lit, o, a) == [k |-> k, s |-> s, lit |-> lit, o |-> o, a |-> a]

Absent == JV("absent", <<>>, "", {}, <<>>)
JNull == JV("null", <<>>, "", {}, <<>>)
JBool == JV("bool", <<>>, "true", {}, <<>>)
JStr(s) == JV("str", s, "", {}, <<>>)
JNum(lit) == JV("num", <<>>, lit, {}, <<>>)
JObj(o) == JV("obj", <<>>, "", o, <<>>)
JArr(a) == JV("arr", <<>>, "", {}, a)

\* Strings given as values.
StrHello == <<"h", "i">>
StrDate == <<"2", "0", "2", "4", "-", "0", "1", "-", "1", "5">>
StrBadDate == <<"2", "0", "2", "4", "-", "1", "3", "-", "4", "0">>
StrNoSuchDay == <<"2", "0", "2", "3", "-", "0", "2", "-", "2", "9">>
StrShortDate == <<"2", "0", "2", "4", "-", "1", "-", "1", "5">>
StrClock == <<"1", "2", ":", "3", "0">>
StrBadClock == <<"2", "5", ":", "0", "0">>
StrShortClock == <<"9", ":", "3", "0">>
StrStamp == StrDate \o <<"T", "1", "0", ":", "0", "0", ":", "0", "0", "Z">>
StrStampZone == StrDate \o <<"T", "1", "0", ":", "0", "0", ":", "0", "0", "+", "0", "3", ":", "0", "0">>
StrShortStamp == StrDate \o <<"T", "9", ":", "0", "0", ":", "0", "0", "Z">>
StrNoZone == StrDate \o <<"T", "1", "0", ":", "0", "0", ":", "0", "0">>

Strings ==
    {<<>>, StrHello, StrDate, StrBadDate, StrNoSuchDay, StrShortDate, StrClock,
     StrBadClock, StrShortClock, StrStamp, StrStampZone, StrShortStamp, StrNoZone}

\* Number literals: an integer, a fraction, one beyond the range of float64.
Numbers == {"1", "1.5", "1e999"}

ObjPerson == {<<"id", "int", "1">>, <<"first_name", "str", "Ann">>}
ObjMultipleChoice == {<<"choice_ids", "ints", "[1,2]">>, <<"choice_names", "strs", "[A,B]">>}
ObjCatalogItem == {<<"item_id", "int", "7">>, <<"values", "strs", "[x]">>}
ObjTitle == {<<"checkmark", "str", "checked">>, <<"fields", "arr0", "[]">>}
ObjFormLink == {<<"task_ids", "ints", "[5]">>, <<"subject", "str", "s">>}
ObjMistyped == {<<"choice_ids", "str", "x">>, <<"id", "str", "x">>, <<"item_id", "str", "x">>,
                <<"checkmark", "int", "1">>, <<"subject", "int", "1">>}

Objects == {{}, ObjPerson, ObjMultipleChoice, ObjCatalogItem, ObjTitle, ObjFormLink, ObjMistyped}

\* Arrays: empty, of objects, of an object and null, of a number.
Arrays == {<<>>, <<"obj", "obj">>, <<"obj", "null">>, <<"num">>}

Values ==
    {Absent, JNull, JBool}
        \cup {JStr(s) : s \in Strings} \cup {JNum(n) : n \in Numbers}
        \cup {JObj(o) : o \in Objects} \cup {JArr(a) : a \in Arrays}

\* The cases of the switch on raw.Type (lines 70-202).
DispatchTags ==
    {"text", "money", "number", "date", "time", "checkmark", "due_date", "due_date_time",
     "email", "phone", "flag", "step", "status", "creation_date", "note", "catalog",
     "file", "person", "author", "table", "multiple_choice", "title", "form_link"}

\* Tags that reach the default case: a declared one and one unheard of.
OtherTags == {"project", "signature"}

FieldTags == DispatchTags \cup OtherTags

\* Documents given to FormField.UnmarshalJSON; wf is FALSE for a document
\* that json.Unmarshal rejects at line 61.
Docs == {[wf |-> w, type |-> t, value |-> v] : w \in BOOLEAN, t \in FieldTags, v \in Values}

NoDoc == [wf |-> FALSE, type |-> "text", value |-> Absent]

\* A time.Time value (off: zone offset in minutes).
Time(y, mo, d, h, mi, sec, off) ==
    [y |-> y, mo |-> mo, d |-> d, h |-> h, mi |-> mi, sec |-> sec, off |-> off]

NoTime == Time(0, 0, 0, 0, 0, 0, 0)

\* f.Value and the returned error: t is the dynamic type of f.Value ("nil"
\* for a nil interface), j its content, tm its content when it is a time.Time.
Field(err, t, j, tm) == [err |-> err, t |-> t, j |-> j, tm |-> tm]

NoField == Field("pending", "nil", Absent, NoTime)

\* The id every document carries, and what an error holds in place of an id
\* or of a type tag when it names neither.
FieldID == 1
NoID == 0
NoTag == ""

FieldError(kind, id, tag) == [kind |-> kind, id |-> id, tag |-> tag]

NoError == FieldError("pending", NoID, NoTag)

\* Nested fields: a field is a leaf, or a table, title or multiple_choice whose
\* value holds further fields (the cells of a row, the fields member).
MaxDepth == 2

Containers == {"table", "title", "multiple_choice"}

Leaf(tag, v) == [type |-> tag, value |-> v, kids |-> <<>>]

Container(tag, kids) == [type |-> tag, value |-> Absent, kids |-> kids]

\* The leaves: two that decode, one whose date does not parse, one whose value
\* has the wrong kind.
NestedLeaves ==
    {Leaf("text", JStr(StrHello)), Leaf("date", JStr(StrDate)),
     Leaf("date", JStr(StrBadDate)), Leaf("step", JNum("1.5"))}

\* A container holds a field alone, after a leaf, or before one.
Rows(x) == {<<x>>} \cup {<<l, x>> : l \in NestedLeaves} \cup {<<x, l>> : l \in NestedLeaves}

\* How deep the fields of a field are nested.
RECURSIVE Depth(_)
Depth(n) ==
    IF n.kids = <<>> THEN 0
    ELSE LET below == {Depth(n.kids[i]) : i \in 1..Len(n.kids)}
         IN 1 + CHOOSE d \in below : \A e \in below : e <= d

NoTree == Leaf("text", Absent)

\* What decoding a field gave: the error, the dynamic type of Value, for a
\* leaf the decoded field, and the same of the nested fields reached.
Decoded1(err, t, f, kids) == [err |-> err, t |-> t, f |-> f, kids |-> kids]

NoNest == [err |-> "pending", kids |-> <<>>]

\* RegistryRequest: the static fields as <<Go name, JSON key, kind>>
\* (src/requests.go lines 181-193), every value written as a string.
StaticFields ==
    {<<"Steps", "steps", "int">>, <<"IncludeArchived", "include_archived", "bool">>,
     <<"FieldIDs", "field_ids", "slice">>, <<"Format", "format", "string">>,
     <<"Delimiter", "delimiter", "string">>, <<"Encoding", "encoding", "string">>,
     <<"SimpleFormat", "simple_format", "bool">>,
     <<"ModifiedBefore", "modified_before", "ptr">>, <<"ModifiedAfter", "modified_after", "ptr">>,
     <<"CreatedBefore", "created_before", "ptr">>, <<"CreatedAfter", "created_after", "ptr">>,
     <<"ClosedBefore", "closed_before", "ptr">>, <<"ClosedAfter", "closed_after", "ptr">>}

\* The zero value of every kind of field.
ZeroOf(k) ==
    IF k = "int" THEN "0" ELSE IF k = "bool" THEN "false" ELSE IF k = "string" THEN "" ELSE "nil"

\* A map[int]string: nil, or made with these entries.
FilterMap(isNil, entries) == [isNil |-> isNil, entries |-> entries]

\* The filter maps: nil, empty, of one entry, of two (one with an empty filter).
FilterMaps ==
    {FilterMap(TRUE, {}), FilterMap(FALSE, {}), FilterMap(FALSE, {<<7, "x">>}),
     FilterMap(FALSE, {<<7, "x">>, <<12, "">>})}

Stamp == "2024-01-15T10:00:00Z"

\* Values of a field: the zero value and others; for FieldIDs a nil slice, an
\* empty one and one of an element.
Ints == {"0", "2"}
Bools == {"false", "true"}
Slices == {"nil", "[]", "[1]"}
Pointers == {"nil", Stamp}

Requests ==
    [FieldFilters : FilterMaps, Steps : Ints, IncludeArchived : Bools, FieldIDs : Slices,
     Format : {"", "csv"}, Delimiter : {"", ";"}, Encoding : {"", "utf-8"},
     SimpleFormat : Bools, ModifiedBefore : Pointers, ModifiedAfter : Pointers,
     CreatedBefore : Pointers, CreatedAfter : Pointers, ClosedBefore : Pointers,
     ClosedAfter : Pointers]

NoRequest ==
    [FieldFilters |-> FilterMap(TRUE, {}), Steps |-> "0", IncludeArchived |-> "false",
     FieldIDs |-> "nil", Format |-> "", Delimiter |-> "", Encoding |-> "",
     SimpleFormat |-> "false", ModifiedBefore |-> "nil", ModifiedAfter |-> "nil",
     CreatedBefore |-> "nil", CreatedAfter |-> "nil", ClosedBefore |-> "nil",
     ClosedAfter |-> "nil"]

NoOutput == [path |-> "none", members |-> {}]

(* ------------------------------- state -------------------------------- *)

VARIABLES
    accessToken,  \* Client.accessToken
    readers,      \* callers holding Client.mu for reading
    writer,       \* caller holding Client.mu for writing, or NoCall
    pc,           \* position of each caller
    kind,         \* operation each caller runs
    ctx,          \* "none", or why getAndSetAccessToken runs: "ensure" / "refresh"
    tokRead,      \* value of c.accessToken read at line 221
    hdr,          \* Authorization header of the request being built
    newTok,       \* accessToken local of getAndSetAccessToken
    result,       \* what the operation returned
    lastResp,     \* history: response the returned result was computed from
    log,          \* history: exchanges and token writes of the call
    written,      \* history: some getAndSetAccessToken has stored a token
    sinceRefresh, \* history: callers whose latest refresh write is committed
    readFresh,    \* history: the token read at line 221 was stored by the caller's refresh or later
    retry,        \* the running performRequest was entered by the recursive call of line 239
    traced,       \* callers whose history (log, lastResp) is recorded
    reader,       \* bytes not yet read from the io.Reader of the upload
    req,          \* request built by the performRequest frame of the operation
    sentReq,      \* history: the operation's request as it was last sent
    eventBufferSize, \* Client.eventBufferSize
    eventChan,    \* events buffered in eventChan
    received,     \* history: events the consumer has received, in order
    sentSeq,      \* history: events whose channel send has completed, in order
    hpc,          \* position of each handler goroutine
    hbody,        \* request body (NoBody when reading it fails)
    hsig,         \* X-Pyrus-Sig header of the request
    hevent,       \* event local of the handler
    hdecoded,     \* history: json.Unmarshal was called on the body
    hstatus,      \* status written to the http.ResponseWriter
    nReq,         \* requests served so far
    consuming,    \* whether a goroutine receives from the returned channel
    fpc,          \* position of the caller of FormField.UnmarshalJSON
    fdoc,         \* document given to FormField.UnmarshalJSON
    fres,         \* f.Value and the error returned
    ferr,         \* what the returned error says about the field it comes from
    fenc,         \* json.Marshal of the decoded field
    fres2,        \* f.Value and the error of decoding fenc
    npc,          \* position of the caller that decodes a document with nested fields
    ntree,        \* the field with its nested fields
    nres,         \* what decoding ntree gave, field by field
    rpc,          \* position of the caller of RegistryRequest.MarshalJSON
    rreq,         \* the RegistryRequest
    rout          \* the JSON object MarshalJSON returned

transportVars == <<accessToken, readers, writer, pc, kind, ctx, tokRead, hdr, newTok,
                   result, lastResp, log, written, sinceRefresh, readFresh, retry, traced,
                   reader, req, sentReq>>

hookVars == <<eventBufferSize, eventChan, received, sentSeq, hpc, hbody, hsig,
              hevent, hdecoded, hstatus, nReq, consuming>>

vars == <<accessToken, readers, writer, pc, kind, ctx, tokRead, hdr, newTok,
          result, lastResp, log, written, sinceRefresh, readFresh, retry, traced,
          reader, req, sentReq,
          eventBufferSize, eventChan, received, sentSeq, hpc, hbody, hsig,
          hevent, hdecoded, hstatus, nReq, consuming, fpc, fdoc, fres, ferr, fenc, fres2,
          npc, ntree, nres, rpc, rreq, rout>>

fieldVars == <<fpc, fdoc, fres, ferr, fenc, fres2>>

nestVars == <<npc, ntree, nres>>

registryVars == <<rpc, rreq, rout>>

\* The variables of the encoding and decoding parts.
codecVars == <<fieldVars, nestVars, registryVars>>

(* --------------------------- pure decisions --------------------------- *)

\* auth local of the running performRequest frame (lines 147-150): the frame is
\* the authentication call when the operation is Auth or when it was entered
\* through getAndSetAccessToken.
InAuth(c) == kind[c] = "auth" \/ ctx[c] # "none"

\* respBody of the running frame.
Dest(c) ==
    IF InAuth(c) THEN "authresp"
    ELSE IF kind[c] \in {"api", "upload"} THEN "struct"
    ELSE IF kind[c] = "download" THEN "string"
    ELSE "nil"

\* reqBody.(io.Writer) of the running frame (line 266).
IsWriter(c) == ~InAuth(c) /\ kind[c] = "download"

\* Mutation: the authentication call needs a token as well.
TokenOkUnlessEmpty(tok, auth) == tok # ""

\* line 212: ok := c.accessToken != "" || auth
TokenOk(tok, auth) == tok # "" \/ auth

\* lines 221-223: the Authorization header attached to the request.
Header(tok, auth) == IF tok # "" /\ ~auth THEN tok ELSE NoHeader

\* Mutation: a 401 to an authentication request starts a refresh as well.
ShouldRefreshInAuth(st, auth) == st = 401

\* line 234: whether the response starts a token refresh and a retry.
ShouldRefresh(st, auth) == st = 401 /\ ~auth

\* lines 282/290: json.Decoder.Decode fails.
DecodeFails(dest, r) ==
    \/ r.k = "bad"
    \/ dest = "string" /\ r.k \in {"tok", "res", "err"}

\* lines 281-287: the Error value decoded from a non-200 body.
ErrorCodeOf(r) == IF r.k = "err" THEN r.v ELSE ""

\* line 290: the value decoded into respBody from a 200 body.
Decoded(dest, r) ==
    IF dest = "authresp" THEN (IF r.k = "tok" THEN r.v ELSE "")
    ELSE IF dest = "struct" /\ r.k = "res" THEN r.v
    ELSE Unset

\* Value of a respBody nothing was decoded into (AuthResponse.AccessToken is "").
Untouched(dest) == IF dest = "authresp" THEN "" ELSE Unset

Res(e, cd, v) == [err |-> e, code |-> cd, val |-> v]

\* lines 247-277: a response with a non-JSON content type.
FileOutcome(dest, isWriter, r) ==
    IF r.k = "baddisp" THEN Res("media", "", Untouched(dest))
    ELSE IF r.k = "inline" THEN Res("attachment was expected", "", Untouched(dest))
    ELSE IF r.k = "noname" THEN Res("file doesn't have a name", "", Untouched(dest))
    ELSE LET filled == IF dest = "string" THEN r.v ELSE Untouched(dest) IN
         IF ~isWriter THEN Res("writer was expected", "", filled)
         ELSE IF r.k = "cut" THEN Res("copy", "", filled)
         ELSE Res("none", "", filled)

\* Mutation: only status 401 is taken for an error response.
JsonOutcomeOnly401(dest, r) ==
    IF r.st = 401 THEN
        IF r.k = "bad" THEN Res("decode", "", Untouched(dest))
        ELSE Res("api", ErrorCodeOf(r), Untouched(dest))
    ELSE IF DecodeFails(dest, r) THEN Res("decode", "", Untouched(dest))
    ELSE Res("none", "", Decoded(dest, r))

\* lines 279-295: a response decoded as JSON.
JsonOutcome(dest, r) ==
    IF r.st # 200 THEN
        IF r.k = "bad" THEN Res("decode", "", Untouched(dest))
        ELSE Res("api", ErrorCodeOf(r), Untouched(dest))
    ELSE IF DecodeFails(dest, r) THEN Res("decode", "", Untouched(dest))
    ELSE Res("none", "", Decoded(dest, r))

\* Mutation: the body is parsed although there is no response destination.
OutcomeAlwaysParsed(dest, isWriter, r) ==
    IF r.ct = "file" THEN FileOutcome(dest, isWriter, r)
    ELSE JsonOutcome(dest, r)

\* Mutation: a response without a parsable Content-Type is taken for a file.
OutcomeFileUnlessJson(dest, isWriter, r) ==
    IF dest = "nil" THEN Res("none", "", Unset)
    ELSE IF r.ct # "json" THEN FileOutcome(dest, isWriter, r)
    ELSE JsonOutcome(dest, r)

\* lines 242-295: the result of performRequest for a response that does not
\* start a refresh.
Outcome(dest, isWriter, r) ==
    IF dest = "nil" THEN Res("none", "", Unset)
    ELSE IF r.ct = "file" THEN FileOutcome(dest, isWriter, r)
    ELSE JsonOutcome(dest, r)

\* lines 227-230: the result of a failed c.httpClient.Do.
TransportError == Res("transport", "", Unset)

(* ------------------------------ history ------------------------------- *)

\* Events: "send" / "auth" an exchange of the operation's own request (of Auth
\* for "auth"), "auth-ok" / "auth-fail" the authentication request of
\* getAndSetAccessToken, each with the response status or Failed; "empty"
\* line 212 found no token; "write" line 140 stored one.
Ev(e, s) == [ev |-> e, st |-> s]

Record(c, e) ==
    IF c \in traced /\ Len(log[c]) < MaxLog THEN [log EXCEPT ![c] = Append(@, e)] ELSE log

Keep(c, r) == IF c \in traced THEN [lastResp EXCEPT ![c] = r] ELSE lastResp

(* ------------------------------ actions ------------------------------- *)

\* NewClient (lines 113-131): no token, a free lock; no call is running.
NewClient(tr) ==
    /\ accessToken = ""
    /\ readers = {}
    /\ writer = NoCall
    /\ pc = [c \in Calls |-> "idle"]
    /\ kind = [c \in Calls |-> "api"]
    /\ ctx = [c \in Calls |-> "none"]
    /\ tokRead = [c \in Calls |-> ""]
    /\ hdr = [c \in Calls |-> NoHeader]
    /\ newTok = [c \in Calls |-> ""]
    /\ result = [c \in Calls |-> NoResult]
    /\ lastResp = [c \in Calls |-> NoResp]
    /\ log = [c \in Calls |-> <<>>]
    /\ written = FALSE
    /\ sinceRefresh = {}
    /\ readFresh = [c \in Calls |-> FALSE]
    /\ retry = [c \in Calls |-> FALSE]
    /\ traced = tr
    /\ reader = [c \in Calls |-> <<>>]
    /\ req = [c \in Calls |-> NoRequestBuilt]
    /\ sentReq = [c \in Calls |-> NoRequestBuilt]

\* WithEventBufferSize(size) and WebhookHandler line 637: an empty channel of
\* that capacity; no request is being served.
ChannelMade(size) ==
    /\ eventBufferSize = size
    /\ eventChan = <<>>
    /\ received = <<>>
    /\ sentSeq = <<>>
    /\ hpc = [h \in Hooks |-> "idle"]
    /\ hbody = [h \in Hooks |-> NoBody]
    /\ hsig = [h \in Hooks |-> <<>>]
    /\ hevent = [h \in Hooks |-> NoEvent]
    /\ hdecoded = [h \in Hooks |-> FALSE]
    /\ hstatus = [h \in Hooks |-> NoStatus]
    /\ nReq = 0

\* The handler and its channel as returned by WebhookHandler (line 676), with
\* a goroutine of the program receiving from the channel.
NewHandler(size) == ChannelMade(size) /\ consuming = TRUE

\* No document has been decoded.
NoDecoding ==
    /\ fpc = "idle" /\ fdoc = NoDoc /\ fres = NoField
    /\ ferr = NoError /\ fenc = NoDoc /\ fres2 = NoField
    /\ npc = "idle" /\ ntree = NoTree /\ nres = NoNest
    /\ rpc = "idle" /\ rreq = NoRequest /\ rout = NoOutput

Init == NewClient({}) /\ NewHandler(MaxBuffer) /\ NoDecoding

\* A caller invokes a public operation, which calls performRequest.
StartCall(c) ==
    /\ pc[c] \in {"idle", "done"}
    /\ \E k \in Kinds : kind' = [kind EXCEPT ![c] = k]
    /\ pc' = [pc EXCEPT ![c] = "build"]
    /\ result' = [result EXCEPT ![c] = NoResult]
    /\ lastResp' = [lastResp EXCEPT ![c] = NoResp]
    /\ log' = [log EXCEPT ![c] = <<>>]
    /\ reader' = [reader EXCEPT ![c] = IF kind'[c] = "upload" THEN FileBytes ELSE <<>>]
    /\ req' = [req EXCEPT ![c] = NoRequestBuilt]
    /\ sentReq' = [sentReq EXCEPT ![c] = NoRequestBuilt]
    /\ UNCHANGED <<accessToken, readers, writer, ctx, tokRead, hdr, newTok, written,
                   sinceRefresh, readFresh, retry, traced>>

\* method of the operation (the calls of performRequest, lines 301-632).
MethodOf(k) ==
    IF k \in {"api", "download"} THEN "GET" ELSE IF k = "nobody" THEN "PUT" ELSE "POST"

\* path of the operation.
PathOf(k) ==
    IF k = "auth" THEN "/auth" ELSE IF k = "api" THEN "/profile"
    ELSE IF k = "nobody" THEN "/calls/guid" ELSE IF k = "download" THEN "/files/download/1"
    ELSE "/files/upload"

\* reqBody of the operation: nil (Profile), a *fileRequest (UploadFile), or a
\* value that is encoded as JSON (the authRequest of Auth, the request of
\* AddCallDetails, the bytes.Buffer of DownloadFile).
ReqBody(k) == IF k = "api" THEN "nil" ELSE IF k = "upload" THEN "file" ELSE "value"

\* Mutation: a *fileRequest is encoded like any other value.
IsMultipartNever(body) == FALSE

\* lines 161-164: reqBody.(*fileRequest)
IsMultipart(body) == body = "file"

\* json.NewEncoder(buf).Encode(reqBody)
JsonBytes == <<"{", "}">>

\* lines 170-208: the body and the Content-Type for a reqBody, given what the
\* upload's reader still yields.  io.Copy (line 180) reads the reader to its
\* end.
BuildRequest(k, body, rd) ==
    IF IsMultipart(body)
      THEN Request(MethodOf(k), PathOf(k), "multipart", "multipart/form-data", "file", rd)
    ELSE IF body # "nil"
      THEN Request(MethodOf(k), PathOf(k), "json", "application/json", "", JsonBytes)
    ELSE Request(MethodOf(k), PathOf(k), "none", "application/json", "", <<>>)

\* performRequest lines 146-208: URL, body and a new request object with
\* User-Agent and Content-Type and no Authorization header.  The frame entered
\* through getAndSetAccessToken builds the authentication request and leaves
\* the request of the frame that waits for it alone.
Build(c) ==
    /\ pc[c] = "build"
    /\ IF ctx[c] = "none"
         THEN /\ req' = [req EXCEPT ![c] = BuildRequest(kind[c], ReqBody(kind[c]), reader[c])]
              /\ reader' = [reader EXCEPT ![c] = IF IsMultipart(ReqBody(kind[c])) THEN <<>> ELSE @]
         ELSE UNCHANGED <<req, reader>>
    /\ UNCHANGED sentReq
    /\ pc' = [pc EXCEPT ![c] = "rlock1"]
    /\ hdr' = [hdr EXCEPT ![c] = NoHeader]
    /\ tokRead' = [tokRead EXCEPT ![c] = ""]
    /\ readFresh' = [readFresh EXCEPT ![c] = FALSE]
    /\ UNCHANGED <<accessToken, readers, writer, kind, ctx, newTok,
                   result, lastResp, log, written, sinceRefresh, retry, traced>>

\* sync.RWMutex.RLock returns once no writer holds the lock.
RLockFree == writer = NoCall

\* Mutation: the read lock is kept.
RUnlockMissing(rs, c) == rs

\* lines 213 and 224: sync.RWMutex.RUnlock by c.
RUnlock(rs, c) == rs \ {c}

\* line 211
RLock1(c) ==
    /\ pc[c] = "rlock1"
    /\ RLockFree
    /\ readers' = readers \cup {c}
    /\ pc' = [pc EXCEPT ![c] = "rd1"]
    /\ UNCHANGED <<accessToken, writer, kind, ctx, tokRead, hdr, newTok,
                   result, lastResp, log, written, sinceRefresh, readFresh, retry, traced>>

\* lines 212-218: read the token and release the lock; without a token enter
\* getAndSetAccessToken, whose Auth call enters performRequest for "/auth".
Check1(c) ==
    /\ pc[c] = "rd1"
    /\ readers' = RUnlock(readers, c)
    /\ IF TokenOk(accessToken, InAuth(c))
         THEN pc' = [pc EXCEPT ![c] = "rlock2"] /\ UNCHANGED <<ctx, log>>
         ELSE /\ pc' = [pc EXCEPT ![c] = "build"]
              /\ ctx' = [ctx EXCEPT ![c] = "ensure"]
              /\ log' = Record(c, Ev("empty", 0))
    /\ UNCHANGED <<accessToken, writer, kind, tokRead, hdr, newTok,
                   result, lastResp, written, sinceRefresh, readFresh, retry, traced>>

\* line 220
RLock2(c) ==
    /\ pc[c] = "rlock2"
    /\ RLockFree
    /\ readers' = readers \cup {c}
    /\ pc' = [pc EXCEPT ![c] = "rd2"]
    /\ UNCHANGED <<accessToken, writer, kind, ctx, tokRead, hdr, newTok,
                   result, lastResp, log, written, sinceRefresh, readFresh, retry, traced>>

\* lines 221-224: read the token, set the header, release the lock.
Authorize(c) ==
    /\ pc[c] = "rd2"
    /\ tokRead' = [tokRead EXCEPT ![c] = accessToken]
    /\ hdr' = [hdr EXCEPT ![c] = Header(accessToken, InAuth(c))]
    /\ readFresh' = [readFresh EXCEPT ![c] = c \in sinceRefresh]
    /\ readers' = RUnlock(readers, c)
    /\ pc' = [pc EXCEPT ![c] = "do"]
    /\ UNCHANGED <<accessToken, writer, kind, ctx, newTok,
                   result, lastResp, log, written, sinceRefresh, retry, traced>>

\* The event recorded for an exchange of the running frame.
Exchange(c, s) ==
    Ev(IF ctx[c] # "none" THEN "auth-fail" ELSE IF kind[c] = "auth" THEN "auth" ELSE "send", s)

\* The locals of a performRequest frame that has returned.
Popped(c) ==
    /\ hdr' = [hdr EXCEPT ![c] = NoHeader]
    /\ tokRead' = [tokRead EXCEPT ![c] = ""]
    /\ readFresh' = [readFresh EXCEPT ![c] = FALSE]

\* The operation has returned to its caller: no performRequest frame is left.
Returned(c) ==
    /\ retry' = [retry EXCEPT ![c] = FALSE]
    /\ sinceRefresh' = sinceRefresh \ {c}
    /\ ctx' = [ctx EXCEPT ![c] = "none"]

\* History: c.httpClient.Do was called with the request of the operation.
Sent(c) == IF c \in traced THEN [sentReq EXCEPT ![c] = req[c]] ELSE sentReq

\* Mutation: a failed exchange is tried again.
RetryOnTransportError == "build"

\* Where performRequest goes when c.httpClient.Do fails (lines 227-230).
OnTransportError == "done"

\* lines 226-230: c.httpClient.Do fails; performRequest returns the error, and
\* so do Auth and getAndSetAccessToken (lines 135-137, 215-217, 235-237) when
\* the failed request was their authentication request.
DoTransportError(c) ==
    /\ pc[c] = "do"
    /\ log' = Record(c, Exchange(c, Failed))
    /\ pc' = [pc EXCEPT ![c] = OnTransportError]
    /\ IF OnTransportError = "done"
         THEN result' = [result EXCEPT ![c] = TransportError] /\ Returned(c)
         ELSE UNCHANGED <<result, ctx, retry, sinceRefresh>>
    /\ Popped(c)
    /\ sentReq' = IF ctx[c] = "none" THEN Sent(c) ELSE sentReq
    /\ UNCHANGED <<accessToken, readers, writer, kind, newTok, lastResp, written, traced,
                   reader, req>>

\* lines 226-296 for a response to the operation's own request.
DoResponse(c) ==
    /\ pc[c] = "do"
    /\ ctx[c] = "none"
    /\ \E r \in Responses :
        /\ log' = Record(c, Exchange(c, r.st))
        /\ IF ShouldRefresh(r.st, InAuth(c))
             THEN \* lines 234-235: getAndSetAccessToken -> Auth -> performRequest("/auth")
                  /\ ctx' = [ctx EXCEPT ![c] = "refresh"]
                  /\ pc' = [pc EXCEPT ![c] = "build"]
                  /\ sinceRefresh' = sinceRefresh \ {c}
                  /\ retry' = [retry EXCEPT ![c] = TRUE]
                  /\ UNCHANGED <<result, lastResp>>
             ELSE /\ result' = [result EXCEPT ![c] = Outcome(Dest(c), IsWriter(c), r)]
                  /\ lastResp' = Keep(c, r)
                  /\ pc' = [pc EXCEPT ![c] = "done"]
                  /\ Returned(c)
    /\ Popped(c)
    /\ sentReq' = Sent(c)
    /\ UNCHANGED <<accessToken, readers, writer, kind, newTok, written, traced, reader, req>>

\* Mutation: the token is stored without taking the lock.
StoreWithoutLock == "wr"

\* Where getAndSetAccessToken goes once Auth returned a token (line 139).
AfterAuthOk == "wlock"

\* Mutation: the error of Auth is ignored.
AuthNeverFailed(res) == FALSE

\* lines 134-137: `if err != nil { return err }` after c.Auth.
AuthFailed(res) == res.err # "none"

\* Mutation: getAndSetAccessToken returns nil without storing the token.
DoAuthResponseNoStore(c) ==
    /\ pc[c] = "do"
    /\ ctx[c] # "none"
    /\ \E r \in Responses :
        LET res == Outcome(Dest(c), IsWriter(c), r) IN
        IF AuthFailed(res)
          THEN /\ log' = Record(c, Ev("auth-fail", r.st))
               /\ result' = [result EXCEPT ![c] = Res(res.err, res.code, Unset)]
               /\ lastResp' = Keep(c, r)
               /\ pc' = [pc EXCEPT ![c] = "done"]
               /\ Returned(c)
          ELSE /\ log' = Record(c, Ev("auth-ok", r.st))
               /\ pc' = [pc EXCEPT ![c] = IF ctx[c] = "refresh" THEN "build" ELSE "rlock2"]
               /\ ctx' = [ctx EXCEPT ![c] = "none"]
               /\ UNCHANGED <<result, lastResp, retry, sinceRefresh>>
    /\ Popped(c)
    /\ UNCHANGED <<accessToken, readers, writer, kind, newTok, written, traced>>

\* lines 226-296 for the response to the authentication request sent by
\* getAndSetAccessToken (line 134), and lines 135-137 / 304-308: an error ends
\* the whole operation, a success yields respBody.AccessToken.
DoAuthResponse(c) ==
    /\ pc[c] = "do"
    /\ ctx[c] # "none"
    /\ \E r \in Responses :
        LET res == Outcome(Dest(c), IsWriter(c), r) IN
        IF AuthFailed(res)
          THEN /\ log' = Record(c, Ev("auth-fail", r.st))
               /\ result' = [result EXCEPT ![c] = Res(res.err, res.code, Unset)]
               /\ lastResp' = Keep(c, r)
               /\ pc' = [pc EXCEPT ![c] = "done"]
               /\ Returned(c)
               /\ UNCHANGED newTok
          ELSE /\ log' = Record(c, Ev("auth-ok", r.st))
               /\ newTok' = [newTok EXCEPT ![c] = res.val]
               /\ pc' = [pc EXCEPT ![c] = AfterAuthOk]
               /\ UNCHANGED <<result, lastResp, ctx, retry, sinceRefresh>>
    /\ Popped(c)
    /\ UNCHANGED <<accessToken, readers, writer, kind, written, traced>>

\* line 139: sync.RWMutex.Lock returns once nobody holds the lock.
Lock(c) ==
    /\ pc[c] = "wlock"
    /\ readers = {} /\ writer = NoCall
    /\ writer' = c
    /\ pc' = [pc EXCEPT ![c] = "wr"]
    /\ UNCHANGED <<accessToken, readers, kind, ctx, tokRead, hdr, newTok,
                   result, lastResp, log, written, sinceRefresh, readFresh, retry, traced>>

\* Mutation: after a refresh the request built for the first attempt is sent again.
ResendBuiltRequest(reason) == IF reason = "refresh" THEN "do" ELSE "rlock2"

\* Where performRequest continues after getAndSetAccessToken returned nil:
\* line 220 after the initial authentication, line 239 (the recursive call,
\* which starts performRequest again) after a refresh.
AfterToken(reason) == IF reason = "refresh" THEN "build" ELSE "rlock2"

\* The value getAndSetAccessToken stores (line 140).
Stored(new, old) == new

\* lines 140-143: store the token, release the lock, return nil.
SetToken(c) ==
    /\ pc[c] = "wr"
    /\ accessToken' = Stored(newTok[c], accessToken)
    /\ written' = TRUE
    /\ sinceRefresh' = IF ctx[c] = "refresh" THEN sinceRefresh \cup {c} ELSE sinceRefresh
    /\ log' = Record(c, Ev("write", 0))
    /\ writer' = IF writer = c THEN NoCall ELSE writer
    /\ newTok' = [newTok EXCEPT ![c] = ""]
    /\ pc' = [pc EXCEPT ![c] = AfterToken(ctx[c])]
    /\ ctx' = [ctx EXCEPT ![c] = "none"]
    /\ UNCHANGED <<readers, kind, tokRead, hdr, result, lastResp, readFresh, retry, traced>>

Step(c) ==
    \/ StartCall(c)
    \/ Build(c)
    \/ RLock1(c) /\ UNCHANGED <<reader, req, sentReq>>
    \/ Check1(c) /\ UNCHANGED <<reader, req, sentReq>>
    \/ RLock2(c) /\ UNCHANGED <<reader, req, sentReq>>
    \/ Authorize(c) /\ UNCHANGED <<reader, req, sentReq>>
    \/ DoTransportError(c)
    \/ DoResponse(c)
    \/ DoAuthResponse(c) /\ UNCHANGED <<reader, req, sentReq>>
    \/ Lock(c) /\ UNCHANGED <<reader, req, sentReq>>
    \/ SetToken(c) /\ UNCHANGED <<reader, req, sentReq>>

Next == \E c \in Calls : Step(c) /\ UNCHANGED <<hookVars, codecVars>>

Spec == Init /\ [][Next]_vars

\* One caller running alone, with its history recorded.
InitCall == NewClient({Solo}) /\ NewHandler(MaxBuffer) /\ NoDecoding

NextCall == Step(Solo) /\ UNCHANGED <<hookVars, codecVars>>

SpecCall == InitCall /\ [][NextCall]_vars

\* Every HTTP exchange returns and the caller's goroutine keeps running.
FairCall == SpecCall /\ WF_vars(NextCall)

\* line 204, `return err`: err is the variable assigned by url.Parse at line
\* 152, which is nil once line 156 has been passed; reqErr is only logged.
ReqErrReturned == "none"

\* lines 196-205: http.NewRequest returns an error.  The body has been built
\* (an upload's reader is read to its end), nothing is sent and the frame
\* returns; for the frame entered through getAndSetAccessToken, Auth returns
\* the AccessToken of its untouched respBody (lines 301-308).
BuildFails(c) ==
    /\ pc[c] = "build"
    /\ log' = Record(c, Ev("no-request", Failed))
    /\ IF ctx[c] = "none" \/ ReqErrReturned # "none"
         THEN /\ result' = [result EXCEPT ![c] = Res(ReqErrReturned, "", Untouched(Dest(c)))]
              /\ pc' = [pc EXCEPT ![c] = "done"]
              /\ Returned(c)
              /\ UNCHANGED newTok
         ELSE /\ newTok' = [newTok EXCEPT ![c] = Untouched(Dest(c))]
              /\ pc' = [pc EXCEPT ![c] = AfterAuthOk]
              /\ UNCHANGED <<result, ctx, retry, sinceRefresh>>
    /\ Popped(c)
    /\ reader' = [reader EXCEPT ![c] =
                     IF ctx[c] = "none" /\ IsMultipart(ReqBody(kind[c])) THEN <<>> ELSE @]
    /\ UNCHANGED <<accessToken, readers, writer, kind, lastResp, written, traced,
                   req, sentReq>>

\* One caller running alone whose requests may fail to be constructed.
NextBuild ==
    /\ Step(Solo) \/ BuildFails(Solo)
    /\ UNCHANGED <<hookVars, codecVars>>

SpecBuild == InitCall /\ [][NextBuild]_vars

(* ------------------------------ webhook ------------------------------- *)

\* strings.ToLower on the characters of a signature (line 659).
Lower(ch) == IF ch = "A" THEN "a" ELSE ch

ToLower(str) == [i \in 1..Len(str) |-> Lower(str[i])]

\* lines 656-658: hex.EncodeToString of the HMAC-SHA1 of the body keyed by the
\* security key: a lower-case hex string, different for different bodies.
Hmac(b) ==
    IF b = "b1" THEN <<"a", "1">>
    ELSE IF b = "b2" THEN <<"1", "a">>
    ELSE <<"a", "a">>

\* Mutation: the header is compared as sent.
SigMatchesExactly(b, sig) == Hmac(b) = sig

\* Mutation: the signature is not verified.
SigNotVerified(b, sig) == TRUE

\* line 659: subtle.ConstantTimeCompare(hash, ToLower(header)) == 1
SigMatches(b, sig) == Hmac(b) = ToLower(sig)

\* Mutation: a body that does not decode is taken for an empty event.
UnmarshalLenient(b) ==
    IF b = "b1" THEN [ok |-> TRUE, ev |-> "e1"]
    ELSE IF b = "b2" THEN [ok |-> TRUE, ev |-> "e2"]
    ELSE [ok |-> TRUE, ev |-> "e0"]

\* line 667: json.Unmarshal(b, &event)
Unmarshal(b) ==
    IF b = "b1" THEN [ok |-> TRUE, ev |-> "e1"]
    ELSE IF b = "b2" THEN [ok |-> TRUE, ev |-> "e2"]
    ELSE [ok |-> FALSE, ev |-> NoEvent]

\* lines 639-646: the status writeError writes for the code it is given.
WriteError(code) == 400

\* Mutation: a send on a full channel goes through.
SendNeverBlocks(ch, size) == TRUE

\* line 673: a send on eventChan completes into the buffer when it has room.
CanSend(ch, size) == Len(ch) < size

\* The HTTP server starts the handler for a request.
Arrive(h) ==
    /\ hpc[h] = "idle"
    /\ nReq < MaxReq
    /\ nReq' = nReq + 1
    /\ \E b \in Bodies \cup {NoBody}, sig \in SigHeaders :
          /\ hbody' = [hbody EXCEPT ![h] = b]
          /\ hsig' = [hsig EXCEPT ![h] = sig]
    /\ hpc' = [hpc EXCEPT ![h] = "read"]
    /\ hevent' = [hevent EXCEPT ![h] = NoEvent]
    /\ hdecoded' = [hdecoded EXCEPT ![h] = FALSE]
    /\ hstatus' = [hstatus EXCEPT ![h] = NoStatus]
    /\ UNCHANGED <<consuming, eventBufferSize, eventChan, received, sentSeq>>

\* lines 649-671: read the body, verify the signature, decode the event.
Handle(h) ==
    /\ hpc[h] = "read"
    /\ IF hbody[h] = NoBody
         THEN /\ hstatus' = [hstatus EXCEPT ![h] = WriteError(500)]
              /\ hpc' = [hpc EXCEPT ![h] = "done"]
              /\ UNCHANGED <<hdecoded, hevent>>
         ELSE IF ~SigMatches(hbody[h], hsig[h])
         THEN /\ hstatus' = [hstatus EXCEPT ![h] = WriteError(401)]
              /\ hpc' = [hpc EXCEPT ![h] = "done"]
              /\ UNCHANGED <<hdecoded, hevent>>
         ELSE /\ hdecoded' = [hdecoded EXCEPT ![h] = TRUE]
              /\ IF ~Unmarshal(hbody[h]).ok
                   THEN /\ hstatus' = [hstatus EXCEPT ![h] = WriteError(400)]
                        /\ hpc' = [hpc EXCEPT ![h] = "done"]
                        /\ UNCHANGED hevent
                   ELSE /\ hevent' = [hevent EXCEPT ![h] = Unmarshal(hbody[h]).ev]
                        /\ hpc' = [hpc EXCEPT ![h] = "send"]
                        /\ UNCHANGED hstatus
    /\ UNCHANGED <<consuming, eventBufferSize, eventChan, received, sentSeq, hbody, hsig, nReq>>

\* The event is dropped instead of being sent.
EnqueueDropped(ch, ev) == ch

\* line 673, `eventChan <- event`: the event is placed behind the ones sent
\* before it, once.
Enqueue(ch, ev) == Append(ch, ev)

\* lines 673-674: the send completes into the buffer, then status 200.
Send(h) ==
    /\ hpc[h] = "send"
    /\ CanSend(eventChan, eventBufferSize)
    /\ eventChan' = Enqueue(eventChan, hevent[h])
    /\ sentSeq' = Enqueue(sentSeq, hevent[h])
    /\ hstatus' = [hstatus EXCEPT ![h] = 200]
    /\ hpc' = [hpc EXCEPT ![h] = "done"]
    /\ UNCHANGED <<consuming, eventBufferSize, received, hbody, hsig, hevent, hdecoded, nReq>>

\* lines 673-674 with nothing buffered: the send completes by handing the
\* event to a consumer blocked in its receive (the only way for capacity 0).
HandOff(h) ==
    /\ hpc[h] = "send"
    /\ consuming
    /\ eventChan = <<>>
    /\ received' = Enqueue(received, hevent[h])
    /\ sentSeq' = Enqueue(sentSeq, hevent[h])
    /\ hstatus' = [hstatus EXCEPT ![h] = 200]
    /\ hpc' = [hpc EXCEPT ![h] = "done"]
    /\ UNCHANGED <<consuming, eventBufferSize, eventChan, hbody, hsig, hevent, hdecoded, nReq>>

\* The handler has returned and the response is complete.
Finish(h) ==
    /\ hpc[h] = "done"
    /\ hpc' = [hpc EXCEPT ![h] = "idle"]
    /\ hbody' = [hbody EXCEPT ![h] = NoBody]
    /\ hsig' = [hsig EXCEPT ![h] = <<>>]
    /\ hevent' = [hevent EXCEPT ![h] = NoEvent]
    /\ hdecoded' = [hdecoded EXCEPT ![h] = FALSE]
    /\ hstatus' = [hstatus EXCEPT ![h] = NoStatus]
    /\ UNCHANGED <<consuming, eventBufferSize, eventChan, received, sentSeq, nReq>>

\* The consumer receives the oldest buffered event from the channel.
Receive ==
    /\ consuming
    /\ eventChan # <<>>
    /\ received' = Append(received, Head(eventChan))
    /\ eventChan' = Tail(eventChan)
    /\ UNCHANGED <<consuming, eventBufferSize, sentSeq, hpc, hbody, hsig, hevent, hdecoded, hstatus, nReq>>

HookStep(h) ==
    \/ Arrive(h)
    \/ Handle(h)
    \/ Send(h)
    \/ HandOff(h)
    \/ Finish(h)

NextHook ==
    /\ \/ \E h \in Hooks : HookStep(h)
       \/ Receive
    /\ UNCHANGED <<transportVars, codecVars>>

\* A client constructed with any buffer size, serving webhook requests.
InitHook ==
    /\ NewClient({})
    /\ \E size \in (0..MaxBuffer) \cup {DefaultEventBufferSize} : NewHandler(size)
    /\ NoDecoding

SpecHook == InitHook /\ [][NextHook]_vars

\* The same with the requests served one after the other by one goroutine.
NextHookSolo ==
    /\ HookStep(HookSolo) \/ Receive
    /\ UNCHANGED <<transportVars, codecVars>>

SpecHookSolo == InitHook /\ [][NextHookSolo]_vars

\* The handler goroutine keeps running and the consumer keeps receiving.
FairHookSolo ==
    /\ SpecHookSolo
    /\ WF_vars((Handle(HookSolo) \/ Send(HookSolo) \/ HandOff(HookSolo) \/ Finish(HookSolo))
                  /\ UNCHANGED <<transportVars, codecVars>>)
    /\ WF_vars(Receive /\ UNCHANGED <<transportVars, codecVars>>)

\* The same where the program may have started no goroutine that receives from
\* the returned channel.
InitHookEither ==
    /\ NewClient({})
    /\ \E size \in (0..MaxBuffer) \cup {DefaultEventBufferSize} : ChannelMade(size)
    /\ consuming \in BOOLEAN
    /\ NoDecoding

SpecHookEither == InitHookEither /\ [][NextHookSolo]_vars

\* The handler goroutine keeps running; the consumer, if there is one, keeps
\* receiving.
FairHookEither ==
    /\ SpecHookEither
    /\ WF_vars((Handle(HookSolo) \/ Send(HookSolo) \/ HandOff(HookSolo) \/ Finish(HookSolo))
                  /\ UNCHANGED <<transportVars, codecVars>>)
    /\ WF_vars(Receive /\ UNCHANGED <<transportVars, codecVars>>)

(* --------------------------- form fields ------------------------------ *)

\* The variable whose address each case passes to json.Unmarshal.
Target(tag) ==
    IF tag \in {"text", "email", "phone", "note", "checkmark", "flag", "status"} THEN "string"
    ELSE IF tag \in {"date", "due_date", "creation_date", "time", "due_date_time"} THEN "string"
    ELSE IF tag \in {"money", "number"} THEN "float64"
    ELSE IF tag = "step" THEN "int"
    ELSE IF tag \in {"file", "table"} THEN "slice"
    ELSE IF tag \in {"catalog", "person", "author", "multiple_choice", "title", "form_link"} THEN "struct"
    ELSE "interface"

\* The dynamic type of f.Value each case assigns.
ValueType(tag) ==
    IF tag \in {"text", "email", "phone", "note"} THEN "string"
    ELSE IF tag = "checkmark" THEN "CheckmarkType"
    ELSE IF tag = "flag" THEN "FlagType"
    ELSE IF tag = "status" THEN "StatusType"
    ELSE IF tag \in {"date", "due_date", "creation_date", "time", "due_date_time"} THEN "time.Time"
    ELSE IF tag \in {"money", "number"} THEN "float64"
    ELSE IF tag = "step" THEN "int"
    ELSE IF tag = "file" THEN "[]*File"
    ELSE IF tag = "table" THEN "Table"
    ELSE IF tag = "catalog" THEN "*CatalogItem"
    ELSE IF tag \in {"person", "author"} THEN "*Person"
    ELSE IF tag = "multiple_choice" THEN "*MultipleChoice"
    ELSE IF tag = "title" THEN "*Title"
    ELSE IF tag = "form_link" THEN "*FormLink"
    ELSE "interface"

\* The json keys of the struct each case decodes into, with the kind of
\* member each accepts.
Schema(tag) ==
    IF tag \in {"person", "author"}
      THEN {<<"id", "int">>, <<"first_name", "str">>, <<"last_name", "str">>, <<"email", "str">>,
            <<"type", "str">>, <<"department_id", "int">>, <<"department_name", "str">>}
    ELSE IF tag = "multiple_choice"
      THEN {<<"choice_ids", "ints">>, <<"choice_names", "strs">>, <<"fields", "arr0">>, <<"choice_id", "int">>}
    ELSE IF tag = "catalog"
      THEN {<<"item_id", "int">>, <<"item_ids", "ints">>, <<"headers", "strs">>, <<"values", "strs">>,
            <<"rows", "arr0">>}
    ELSE IF tag = "title" THEN {<<"checkmark", "str">>, <<"fields", "arr0">>}
    ELSE IF tag = "form_link" THEN {<<"task_ids", "ints">>, <<"subject", "str">>}
    ELSE {}

\* Mutation: a member of any kind is stored into any struct field.
FitsAnything(k, want) == TRUE

\* encoding/json stores a member of kind k into a struct field declared for
\* kind want: null is stored into anything, an empty array into any slice.
Fits(k, want) ==
    \/ k = want
    \/ k = "null"
    \/ k = "arr0" /\ want \in {"ints", "strs"}

\* Mutation: every number literal has a float64 value.
FitsFloat64Always(lit) == TRUE

\* strconv.ParseFloat(lit, 64) succeeds.
FitsFloat64(lit) == lit # "1e999"

\* strconv.ParseInt(lit, 10, 64) succeeds.
FitsInt(lit) == lit \in {"0", "1"}

\* A member that leaves the struct field it is stored into at its zero value.
IsZeroMember(m) == m[2] = "null" \/ m[3] \in {"", "0"}

\* json.Unmarshal(value, &target) for a target that holds its zero value:
\* the error and the content of the target afterwards.
DecodeInto(tag, v) ==
    LET target == Target(tag)
        ok(j) == [err |-> "none", j |-> j]
        typeError(j) == [err |-> "type", j |-> j]
        zero == IF target = "string" THEN JStr(<<>>)
                ELSE IF target \in {"float64", "int"} THEN JNum("0")
                ELSE IF target = "struct" THEN JObj({})
                ELSE JNull
    IN
    IF v.k = "null" THEN ok(zero)
    ELSE IF target = "string" THEN (IF v.k = "str" THEN ok(v) ELSE typeError(zero))
    ELSE IF target = "float64"
      THEN (IF v.k = "num" /\ FitsFloat64(v.lit) THEN ok(v) ELSE typeError(zero))
    ELSE IF target = "int"
      THEN (IF v.k = "num" /\ FitsInt(v.lit) THEN ok(v) ELSE typeError(zero))
    ELSE IF target = "struct"
      THEN IF v.k # "obj" THEN typeError(zero)
           ELSE LET known == {m \in v.o : \E f \in Schema(tag) : f[1] = m[1]}
                    fitting == {m \in known : \E f \in Schema(tag) : f[1] = m[1] /\ Fits(m[2], f[2])}
                    stored == {m \in fitting : ~IsZeroMember(m)}
                IN IF fitting = known THEN ok(JObj(stored)) ELSE typeError(JObj(stored))
    ELSE IF target = "slice"
      THEN IF v.k # "arr" THEN typeError(zero)
           ELSE IF \A i \in 1..Len(v.a) : v.a[i] \in {"obj", "null"} THEN ok(v)
           ELSE typeError(JArr([i \in 1..Len(v.a) |-> IF v.a[i] = "obj" THEN "obj" ELSE "null"]))
    ELSE IF v.k = "num" /\ ~FitsFloat64(v.lit) THEN typeError(JNull)
    ELSE ok(v)

(* time.Parse *)

Digit == {"0", "1", "2", "3", "4", "5", "6", "7", "8", "9"}

DigitVal(ch) ==
    IF ch = "0" THEN 0 ELSE IF ch = "1" THEN 1 ELSE IF ch = "2" THEN 2 ELSE IF ch = "3" THEN 3
    ELSE IF ch = "4" THEN 4 ELSE IF ch = "5" THEN 5 ELSE IF ch = "6" THEN 6 ELSE IF ch = "7" THEN 7
    ELSE IF ch = "8" THEN 8 ELSE 9

IsDigit(s, i) == i <= Len(s) /\ s[i] \in Digit

Drop(s, n) == SubSeq(s, n + 1, Len(s))

Num(ok, n, rest) == [ok |-> ok, n |-> n, rest |-> rest]

\* getnum: one or two digits, exactly two when fixed.
GetNum(s, fixed) ==
    IF ~IsDigit(s, 1) THEN Num(FALSE, 0, s)
    ELSE IF ~IsDigit(s, 2)
      THEN (IF fixed THEN Num(FALSE, 0, s) ELSE Num(TRUE, DigitVal(s[1]), Drop(s, 1)))
    ELSE Num(TRUE, 10 * DigitVal(s[1]) + DigitVal(s[2]), Drop(s, 2))

\* stdLongYear: four digits.
GetYear(s) ==
    IF Len(s) < 4 \/ \E i \in 1..4 : s[i] \notin Digit THEN Num(FALSE, 0, s)
    ELSE Num(TRUE, 1000 * DigitVal(s[1]) + 100 * DigitVal(s[2]) + 10 * DigitVal(s[3]) + DigitVal(s[4]),
             Drop(s, 4))

\* A literal character of the layout.
Skip(s, ch) == IF Len(s) >= 1 /\ s[1] = ch THEN Num(TRUE, 0, Drop(s, 1)) ELSE Num(FALSE, 0, s)

RECURSIVE SkipDigits(_)
SkipDigits(s) == IF IsDigit(s, 1) THEN SkipDigits(Drop(s, 1)) ELSE s

\* Fractional seconds are accepted after the seconds although the layout has none.
SkipFraction(s) ==
    IF Len(s) >= 2 /\ s[1] \in {".", ","} /\ IsDigit(s, 2) THEN SkipDigits(Drop(s, 1)) ELSE s

IsLeap(y) == y % 4 = 0 /\ (y % 100 # 0 \/ y % 400 = 0)

DaysIn(mo, y) ==
    IF mo = 2 THEN (IF IsLeap(y) THEN 29 ELSE 28)
    ELSE IF mo \in {4, 6, 9, 11} THEN 30 ELSE 31

Parsed(ok, tm, rest) == [ok |-> ok, tm |-> tm, rest |-> rest]

\* Layout elements 2006-01-02.
ParseYMD(s) ==
    LET y == GetYear(s)
        l1 == Skip(y.rest, "-")
        m == GetNum(l1.rest, TRUE)
        l2 == Skip(m.rest, "-")
        d == GetNum(l2.rest, TRUE)
    IN Parsed(y.ok /\ l1.ok /\ m.ok /\ m.n \in 1..12 /\ l2.ok /\ d.ok,
              Time(y.n, m.n, d.n, 0, 0, 0, 0), d.rest)

\* Layout elements 15:04.
ParseHM(s) ==
    LET h == GetNum(s, FALSE)
        l == Skip(h.rest, ":")
        mi == GetNum(l.rest, TRUE)
    IN Parsed(h.ok /\ h.n < 24 /\ l.ok /\ mi.ok /\ mi.n < 60,
              Time(0, 1, 1, h.n, mi.n, 0, 0), mi.rest)

\* Layout element Z07:00.
ParseZone(s) ==
    IF Len(s) >= 1 /\ s[1] = "Z" THEN Num(TRUE, 0, Drop(s, 1))
    ELSE IF Len(s) < 6 \/ s[1] \notin {"+", "-"} \/ s[4] # ":" THEN Num(FALSE, 0, s)
    ELSE LET hh == GetNum(SubSeq(s, 2, 3), TRUE)
             mm == GetNum(SubSeq(s, 5, 6), TRUE)
             off == 60 * hh.n + mm.n
         IN Num(hh.ok /\ mm.ok /\ hh.n <= 24 /\ mm.n <= 60,
                IF s[1] = "-" THEN 0 - off ELSE off, Drop(s, 6))

\* time.Parse(layout, s): every element parses, nothing is left over and the
\* day exists in its month.
TimeParse(layout, s) ==
    IF layout = "2006-01-02"
      THEN LET p == ParseYMD(s) IN
           Parsed(p.ok /\ p.rest = <<>> /\ p.tm.d \in 1..DaysIn(p.tm.mo, p.tm.y), p.tm, <<>>)
    ELSE IF layout = "15:04"
      THEN LET p == ParseHM(s) IN Parsed(p.ok /\ p.rest = <<>>, p.tm, <<>>)
    ELSE LET p == ParseYMD(s)
             l1 == Skip(p.rest, "T")
             q == ParseHM(l1.rest)
             l2 == Skip(q.rest, ":")
             sec == GetNum(l2.rest, TRUE)
             z == ParseZone(SkipFraction(sec.rest))
         IN Parsed(/\ p.ok /\ l1.ok /\ q.ok /\ l2.ok /\ sec.ok /\ sec.n < 60 /\ z.ok
                   /\ z.rest = <<>> /\ p.tm.d \in 1..DaysIn(p.tm.mo, p.tm.y),
                   Time(p.tm.y, p.tm.mo, p.tm.d, q.tm.h, q.tm.mi, sec.n, z.n), <<>>)

\* The layout each date case passes to time.Parse.
Layout(tag) ==
    IF tag = "time" THEN "15:04"
    ELSE IF tag = "due_date_time" THEN "RFC3339"
    ELSE "2006-01-02"

\* line 65: raw.Value == nil.  A null value is stored in the json.RawMessage
\* as the four bytes "null", so only a missing key leaves it nil.
IsMissing(v) == v.k = "absent"

\* Mutation: a time.Parse error is swallowed and the zero time is stored.
ParseOutcomeSwallowed(p) == Field("none", "time.Time", Absent, IF p.ok THEN p.tm ELSE NoTime)

\* lines 89-94 and alike: the result of a date case for the parse result p.
ParseOutcome(p) ==
    IF p.ok THEN Field("none", "time.Time", Absent, p.tm) ELSE Field("parse", "nil", Absent, NoTime)

\* FormField.UnmarshalJSON (lines 53-210) for a FormField whose Value is nil.
UnmarshalJSON(doc) ==
    IF ~doc.wf THEN Field("syntax", "nil", Absent, NoTime)
    ELSE IF IsMissing(doc.value) THEN Field("none", "nil", Absent, NoTime)
    ELSE IF doc.type \in {"date", "due_date", "creation_date", "time", "due_date_time"}
      THEN LET str == DecodeInto(doc.type, doc.value) IN
           IF str.err # "none" THEN Field(str.err, "nil", Absent, NoTime)
           ELSE ParseOutcome(TimeParse(Layout(doc.type), str.j.s))
    ELSE IF doc.type \in DispatchTags
      THEN LET r == DecodeInto(doc.type, doc.value) IN
           Field(r.err, ValueType(doc.type), r.j, NoTime)
    ELSE LET r == DecodeInto(doc.type, doc.value) IN
         Field(r.err, IF r.j.k = "null" THEN "nil" ELSE "interface", r.j, NoTime)

\* lines 61-63, 85-92 and 209: the error of json.Unmarshal or of time.Parse
\* is returned as it is.  Neither knows the FormField it works for: the error
\* holds the kind and the text of the value and the Go type or the layout it
\* was decoded for, never the field's id or type tag.
ReturnedError(err) == FieldError(err, NoID, NoTag)

(* json.Marshal of a FormField: there is no MarshalJSON, the struct tags rule *)

DigitChar(n) == CHOOSE ch \in Digit : DigitVal(ch) = n

TwoChars(n) == <<DigitChar(n \div 10), DigitChar(n % 10)>>

FourChars(n) == <<DigitChar(n \div 1000), DigitChar((n \div 100) % 10)>> \o TwoChars(n % 100)

\* Layout element Z07:00 on output.
ZoneChars(off) ==
    IF off = 0 THEN <<"Z">>
    ELSE LET a == IF off < 0 THEN 0 - off ELSE off
         IN <<IF off < 0 THEN "-" ELSE "+">> \o TwoChars(a \div 60) \o <<":">> \o TwoChars(a % 60)

\* Time.MarshalJSON: the layout RFC3339Nano, whatever layout the time was
\* parsed with.
FormatRFC3339(tm) ==
    FourChars(tm.y) \o <<"-">> \o TwoChars(tm.mo) \o <<"-">> \o TwoChars(tm.d) \o <<"T">>
        \o TwoChars(tm.h) \o <<":">> \o TwoChars(tm.mi) \o <<":">> \o TwoChars(tm.sec)
        \o ZoneChars(tm.off)

\* Value types whose struct tags all say omitempty.
Omitempty(tag) == tag \in {"person", "author", "catalog", "multiple_choice"}

\* The members of a struct on output: omitempty drops a zero field and an
\* empty slice, the other struct tags write a zero field as "" or null.
Emit(tag, o) ==
    LET zeroOf(f) == IF f[2] = "str" THEN <<f[1], "str", "">> ELSE <<f[1], "null", "null">>
    IN IF Omitempty(tag) THEN {m \in o : m[2] # "arr0"}
       ELSE o \cup {zeroOf(f) : f \in {g \in Schema(tag) : \A m \in o : m[1] # g[1]}}

\* json.Marshal of the decoded FormField: value is omitted for a nil Value
\* (omitempty on an interface), else it is the encoding of the dynamic value.
Marshal(tag, res) ==
    [wf |-> TRUE, type |-> tag,
     value |-> IF res.t = "nil" THEN Absent
               ELSE IF res.t = "time.Time" THEN JStr(FormatRFC3339(res.tm))
               ELSE IF res.j.k = "obj" /\ Target(tag) = "struct" THEN JObj(Emit(tag, res.j.o))
               ELSE res.j]

\* A document is handed to FormField.UnmarshalJSON.
Feed ==
    /\ fpc = "idle"
    /\ \E doc \in Docs : fdoc' = doc
    /\ fpc' = "fed"
    /\ UNCHANGED <<fres, ferr, fenc, fres2>>

\* FormField.UnmarshalJSON returns.
DecodeField ==
    /\ fpc = "fed"
    /\ fres' = UnmarshalJSON(fdoc)
    /\ ferr' = ReturnedError(fres'.err)
    /\ fpc' = "decoded"
    /\ UNCHANGED <<fdoc, fenc, fres2>>

\* The decoded field is encoded again.
Reencode ==
    /\ fpc = "decoded" /\ fres.err = "none"
    /\ fenc' = Marshal(fdoc.type, fres)
    /\ fpc' = "encoded"
    /\ UNCHANGED <<fdoc, fres, ferr, fres2>>

\* The encoding is decoded into a fresh FormField.
DecodeAgain ==
    /\ fpc = "encoded"
    /\ fres2' = UnmarshalJSON(fenc)
    /\ fpc' = "redecoded"
    /\ UNCHANGED <<fdoc, fres, ferr, fenc>>

\* The caller is done with the field.
Forget ==
    /\ fpc \in {"decoded", "redecoded"}
    /\ fpc' = "idle" /\ fdoc' = NoDoc /\ fres' = NoField
    /\ ferr' = NoError /\ fenc' = NoDoc /\ fres2' = NoField

NextField ==
    /\ Feed \/ DecodeField \/ Reencode \/ DecodeAgain \/ Forget
    /\ UNCHANGED <<transportVars, hookVars, nestVars, registryVars>>

SpecField == Init /\ [][NextField]_vars

(* nested fields *)

\* Mutation: decoding goes on after a nested field has failed.
KeepsGoing(err) == FALSE

\* encoding/json returns the error of an Unmarshaler at once: the array and the
\* object that hold the nested field are left where they are.
AbortsOn(err) == err # "none"

\* json.Unmarshal of an array of *FormField, given what FormField.UnmarshalJSON
\* makes of each element: the elements are decoded in turn, up to the first
\* that fails.
UpToFirstError(rs) ==
    LET bad == {i \in 1..Len(rs) : AbortsOn(rs[i].err)}
        first == CHOOSE i \in bad : \A j \in bad : i <= j
    IN IF bad = {} THEN [err |-> "none", kids |-> rs]
       ELSE [err |-> rs[first].err, kids |-> SubSeq(rs, 1, first)]

\* FormField.UnmarshalJSON for a field with nested fields: the table, title and
\* multiple_choice cases (lines 187-198) decode the value, nested fields
\* included, assign it and return the error.
RECURSIVE DecodeNode(_)
DecodeNode(n) ==
    IF n.kids = <<>>
      THEN LET f == UnmarshalJSON([wf |-> TRUE, type |-> n.type, value |-> n.value])
           IN Decoded1(f.err, f.t, f, <<>>)
    ELSE LET r == UpToFirstError([i \in 1..Len(n.kids) |-> DecodeNode(n.kids[i])])
         IN Decoded1(r.err, ValueType(n.type), NoField, r.kids)

\* json.Unmarshal of the fields member of a document.
DecodeKids(ks) == UpToFirstError([i \in 1..Len(ks) |-> DecodeNode(ks[i])])

\* A document is written: first a field without nested fields,
NewTree ==
    /\ npc = "idle"
    /\ \E l \in NestedLeaves : ntree' = l
    /\ npc' = "fed"
    /\ UNCHANGED nres

\* then, up to MaxDepth times, a table, title or multiple_choice around it.
Wrap ==
    /\ npc = "fed"
    /\ Depth(ntree) < MaxDepth
    /\ \E c \in Containers, ks \in Rows(ntree) : ntree' = Container(c, ks)
    /\ UNCHANGED <<npc, nres>>

\* json.Unmarshal of the document returns.
DecodeTree ==
    /\ npc = "fed"
    /\ nres' = DecodeKids(<<ntree>>)
    /\ npc' = "decoded"
    /\ UNCHANGED ntree

ForgetTree ==
    /\ npc = "decoded"
    /\ npc' = "idle" /\ ntree' = NoTree /\ nres' = NoNest

NextNest ==
    /\ NewTree \/ Wrap \/ DecodeTree \/ ForgetTree
    /\ UNCHANGED <<transportVars, hookVars, fieldVars, registryVars>>

SpecNest == Init /\ [][NextNest]_vars

(* ------------------- RegistryRequest.MarshalJSON ---------------------- *)

\* Mutation: no field counts as zero.
IsZeroNever(k, v) == FALSE

\* reflect.Value.IsZero (line 240): an int 0, a bool false, a string "", a nil
\* slice, a nil pointer.  An empty slice that is not nil is not zero.
IsZero(k, v) == v = ZeroOf(k)

\* The emptiness omitempty tests: the zero values and every slice of length 0.
IsEmptyValue(k, v) == v = ZeroOf(k) \/ (k = "slice" /\ v = "[]")

\* The JSON value a field is written as.
JsonOf(k, v) ==
    IF k = "int" THEN <<"num", v>>
    ELSE IF k = "bool" THEN <<"bool", v>>
    ELSE IF k = "slice" THEN <<"arr", v>>
    ELSE <<"str", v>>

\* lines 208-213 and 226-235: a true include_archived or simple_format is
\* written as the string "y".
FlagAsY == <<"str", "y">>

\* lines 216-219: one key "fld<id>" for every entry of FieldFilters.
FilterMembers(r) == {<<"fld" \o ToString(e[1]), "str", e[2]>> : e \in r.FieldFilters.entries}

\* lines 221-243: the fields of the struct, by reflection.
FlatMembers(r) ==
    LET flag(f) == f[3] = "bool" /\ r[f[1]] = "true"
        m(f) == IF flag(f) THEN <<f[2]>> \o FlagAsY ELSE <<f[2]>> \o JsonOf(f[3], r[f[1]])
    IN FilterMembers(r)
        \cup {m(f) : f \in {g \in StaticFields : flag(g) \/ ~IsZero(g[3], r[g[1]])}}

\* lines 198-213: json.Marshal of aux, where the two string fields shadow the
\* booleans of the embedded struct and every field has omitempty.
StaticMembers(r) ==
    LET flag(f) == f[3] = "bool" /\ r[f[1]] = "true"
        m(f) == IF flag(f) THEN <<f[2]>> \o FlagAsY ELSE <<f[2]>> \o JsonOf(f[3], r[f[1]])
    IN {m(f) : f \in {g \in StaticFields :
                        IF g[3] = "bool" THEN flag(g) ELSE ~IsEmptyValue(g[3], r[g[1]])}}

\* Mutation: an empty map is serialized as a nil one.
UsesStaticIfEmpty(filters) == filters.entries = {}

\* line 198: r.FieldFilters == nil.
UsesStatic(filters) == filters.isNil

\* RegistryRequest.MarshalJSON (lines 197-246).
MarshalJSON(r) ==
    IF UsesStatic(r.FieldFilters) THEN [path |-> "static", members |-> StaticMembers(r)]
    ELSE [path |-> "flat", members |-> FlatMembers(r)]

\* The caller fills a RegistryRequest.
NewRequest ==
    /\ rpc = "idle"
    /\ \E r \in Requests : rreq' = r
    /\ rpc' = "filled"
    /\ UNCHANGED rout

\* json.NewEncoder(buf).Encode(reqBody) calls MarshalJSON.
MarshalRequest ==
    /\ rpc = "filled"
    /\ rout' = MarshalJSON(rreq)
    /\ rpc' = "marshalled"
    /\ UNCHANGED rreq

ForgetRequest ==
    /\ rpc = "marshalled"
    /\ rpc' = "idle" /\ rreq' = NoRequest /\ rout' = NoOutput

NextRegistry ==
    /\ NewRequest \/ MarshalRequest \/ ForgetRequest
    /\ UNCHANGED <<transportVars, hookVars, fieldVars, nestVars>>

SpecRegistry == Init /\ [][NextRegistry]_vars

(* ----------------------- reading the history -------------------------- *)

\* The history was recorded in full.
Complete(c) == Len(log[c]) < MaxLog

\* Positions of the sends of the operation's own request.
SendIdx(c) == {i \in 1..Len(log[c]) : log[c][i].ev = "send"}

\* Position of the n-th send (0 when there is none).
RECURSIVE NthSend(_, _, _)
NthSend(c, n, from) ==
    IF from > Len(log[c]) THEN 0
    ELSE IF log[c][from].ev = "send"
         THEN (IF n = 1 THEN from ELSE NthSend(c, n - 1, from + 1))
         ELSE NthSend(c, n, from + 1)

\* Authentication requests recorded strictly between two positions.
AuthsBetween(c, i, j) ==
    Cardinality({k \in (i + 1)..(j - 1) : log[c][k].ev \in {"auth-ok", "auth-fail"}})

SawEmpty(c) == \E i \in 1..Len(log[c]) : log[c][i].ev = "empty"

(* ------------------------------ claims -------------------------------- *)

\* C1: one logical non-authentication call sends its original request at most
\* twice: a 401 answer to the retried request does not start another refresh
\* and retry.
C1_AtMostTwoSends ==
    \A c \in traced :
        /\ Cardinality(SendIdx(c)) <= 2
        /\ (retry[c] /\ Len(log[c]) > 0 /\ log[c][Len(log[c])] = Ev("send", 401)) => pc[c] = "done"

\* C2: starting with a stored token, a 401 followed by a 200 on the retry
\* means exactly two sends with exactly one authentication request between
\* them, and the returned result is decoded from the second response.
C2_TwoSendsOneAuth ==
    \A c \in traced :
        LET second == NthSend(c, 2, 1) IN
        (/\ pc[c] = "done" /\ Complete(c)
         /\ Len(log[c]) >= 1 /\ log[c][1] = Ev("send", 401)
         /\ second # 0 /\ log[c][second] = Ev("send", 200))
        => /\ Cardinality(SendIdx(c)) = 2
           /\ AuthsBetween(c, 1, second) = 1
           /\ lastResp[c].st = 200
           /\ result[c] = Outcome(Dest(c), IsWriter(c), lastResp[c])

\* C3: every call that was started eventually returns to its caller.
C3_CallReturns == (pc[Solo] = "build") ~> (pc[Solo] = "done")

\* C4: a call that finds the stored token empty sends its own request only
\* after an authentication request has succeeded and its token has been stored.
C4_AuthBeforeSend ==
    \A c \in traced :
        (Len(log[c]) >= 1 /\ log[c][1] = Ev("empty", 0))
        => LET authenticated == /\ Len(log[c]) >= 3
                                /\ log[c][2] = Ev("auth-ok", 200)
                                /\ log[c][3] = Ev("write", 0) IN
           /\ \A i \in SendIdx(c) : i >= 4 /\ authenticated
           /\ (pc[c] = "do" /\ ~InAuth(c)) => authenticated /\ written

C4_Witness ==
    /\ pc[Solo] = "done"
    /\ log[Solo] = <<Ev("empty", 0), Ev("auth-ok", 200), Ev("write", 0), Ev("send", 200)>>

\* C5: every request about to be sent to an endpoint other than the
\* authentication endpoint carries the Authorization header, and only requests
\* to the authentication endpoint go without it.
C5_AlwaysAuthorized ==
    \A c \in Calls :
        pc[c] = "do" => (hdr[c] = NoHeader <=> InAuth(c))

\* C6: the token is read only by holders of the read lock and written only by
\* the holder of the write lock, and a writer never shares the lock.
C6_LockDiscipline ==
    /\ [](/\ \A c \in Calls : pc[c] \in {"rd1", "rd2"} <=> c \in readers
          /\ \A c \in Calls : pc[c] = "wr" <=> writer = c
          /\ writer # NoCall => readers = {}
          /\ writer \in Calls \cup {NoCall})
    /\ [][/\ accessToken' # accessToken => writer \in Calls /\ pc[writer] = "wr"
          /\ \A c \in Calls : tokRead'[c] \notin {tokRead[c], ""} => c \in readers]_vars

C6_Witness == Cardinality(readers) = 2

\* C7: the token the retried request is authorized with was stored by the
\* caller's refresh or by a later write.
C7_RetryReadsRefreshed ==
    \A c \in Calls :
        (pc[c] = "do" /\ ~InAuth(c) /\ retry[c]) => readFresh[c]

C7_Witness ==
    \E c \in Calls : pc[c] = "do" /\ ~InAuth(c) /\ retry[c] /\ readFresh[c] /\ hdr[c] \in Tokens

\* C8: the token is empty only while no internal authentication has
\* been stored, and once it is non-empty it never becomes empty again.
C8_NeverEmptyAgain ==
    /\ [](accessToken = "" <=> ~written)
    /\ [][accessToken # "" => accessToken' # ""]_vars

\* C9: a transport failure ends the call at once with that error: nothing is
\* sent afterwards, no refresh is started and the token is left alone.
C9_TransportErrorReturns ==
    /\ [](\A c \in traced : \A i \in 1..Len(log[c]) :
            (log[c][i].ev \in {"send", "auth", "auth-fail"} /\ log[c][i].st = Failed)
            => i = Len(log[c]) /\ pc[c] = "done" /\ result[c] = TransportError)
    /\ [][\A c \in traced :
            (log'[c] # log[c] /\ log'[c] # <<>>
                /\ log'[c][Len(log'[c])].ev \in {"send", "auth", "auth-fail"}
                /\ log'[c][Len(log'[c])].st = Failed)
            => accessToken' = accessToken /\ pc'[c] = "done"]_vars

C9_Witness ==
    /\ pc[Solo] = "done" /\ result[Solo] = TransportError
    /\ Len(log[Solo]) = 4 /\ log[Solo][4] = Ev("send", Failed)

\* The returned result was computed from a response to the operation's own
\* request, which was handled as JSON and had a response destination.
JsonAnswered(c) ==
    /\ pc[c] = "done" /\ kind[c] # "nobody"
    /\ Len(log[c]) >= 1 /\ log[c][Len(log[c])].ev \in {"send", "auth"}
    /\ lastResp[c].st \in Statuses
    /\ lastResp[c].ct = "json"

\* C10 as stated: a JSON response with a status other than 200 is returned as
\* the API error decoded from it with the response value unpopulated; one with
\* status 200 is decoded into the response value and no error is returned.
C10_JsonResponse ==
    \A c \in traced :
        JsonAnswered(c)
        => IF lastResp[c].st # 200
             THEN /\ result[c].err = "api"
                  /\ result[c].code = (IF lastResp[c].k = "err" THEN lastResp[c].v ELSE "")
                  /\ result[c].val \in {Unset, ""}
             ELSE result[c].err = "none"

\* C10 (amended): as stated whenever the body decodes; a body that fails to
\* decode (not JSON, or JSON that does not fit the destination) makes the call
\* return the decode error with the response value unpopulated.
C10_JsonResponseDecoded ==
    \A c \in traced :
        JsonAnswered(c)
        => LET r == lastResp[c]
               fits == r.k # "bad" /\ ~(r.st = 200 /\ kind[c] = "download" /\ r.k \in {"tok", "res", "err"}) IN
           /\ (fits /\ r.st # 200)
                => /\ result[c].err = "api"
                   /\ result[c].code = (IF r.k = "err" THEN r.v ELSE "")
                   /\ result[c].val \in {Unset, ""}
           /\ (fits /\ r.st = 200)
                => /\ result[c].err = "none"
                   /\ (kind[c] = "api" /\ r.k = "res") => result[c].val = r.v
                   /\ (kind[c] = "auth" /\ r.k = "tok") => result[c].val = r.v
           /\ ~fits => result[c].err = "decode" /\ result[c].val \in {Unset, ""}

C10_Witness ==
    /\ JsonAnswered(Solo) /\ kind[Solo] = "api"
    /\ lastResp[Solo].st = 500 /\ lastResp[Solo].k = "err"
    /\ result[Solo] = Res("api", "invalid_token", Unset)

\* The returned result was computed from a response to the operation's own
\* request, and the call had a response destination.
Answered(c) ==
    /\ pc[c] = "done" /\ kind[c] # "nobody"
    /\ Len(log[c]) >= 1 /\ log[c][Len(log[c])].ev \in {"send", "auth"}
    /\ lastResp[c].st \in Statuses

\* The result is the one of a file download: success needs an attachment
\* disposition with a filename and a writer, and stores the filename; each of
\* the listed defects is an error.
FileHandled(c) ==
    LET r == lastResp[c] IN
    /\ result[c].err \notin {"api", "decode"}
    /\ result[c].err = "none"
         => r.k = "named" /\ kind[c] = "download" /\ result[c].val = r.v
    /\ (r.k = "named" /\ kind[c] = "download") => result[c].err = "none"
    /\ (r.k \in {"baddisp", "inline", "noname"} \/ kind[c] # "download")
         => result[c].err # "none"

\* C11 as stated: every response whose content type is not application/json,
\* one without content type included, is handled as a file download.
C11_NonJsonIsFile ==
    \A c \in traced :
        (Answered(c) /\ lastResp[c].ct # "json") => FileHandled(c)

\* C11 (amended): a response whose content type parses and is not
\* application/json is handled as a file download; a response without a
\* parsable content type is decoded as JSON like an application/json one.
C11_ParsedNonJsonIsFile ==
    \A c \in traced :
        Answered(c)
        => /\ lastResp[c].ct = "file" => FileHandled(c)
           /\ lastResp[c].ct = "none"
                => /\ result[c].err \in {"none", "api", "decode"}
                   /\ result[c] = JsonOutcome(Dest(c), [lastResp[c] EXCEPT !.ct = "json"])

C11_Witness ==
    /\ Answered(Solo) /\ kind[Solo] = "download"
    /\ lastResp[Solo].ct = "file" /\ lastResp[Solo].k = "named"
    /\ result[Solo] = Res("none", "", "f1")

\* C12: a call without response destination succeeds on the first response
\* whose status is not 401, whatever its status, content type and body: that
\* response ends the call and nothing of it reaches the result.
C12_NoDestinationSucceeds ==
    \A c \in traced :
        kind[c] = "nobody"
        => \A i \in 1..Len(log[c]) :
              (log[c][i].ev = "send" /\ log[c][i].st \notin {401, Failed})
              => /\ i = Len(log[c])
                 /\ pc[c] = "done"
                 /\ result[c] = Res("none", "", Unset)

C12_Witness ==
    /\ pc[Solo] = "done" /\ kind[Solo] = "nobody"
    /\ Len(log[Solo]) >= 1 /\ log[Solo][Len(log[Solo])] = Ev("send", 500)
    /\ lastResp[Solo].ct = "file" /\ lastResp[Solo].k = "baddisp"
    /\ result[Solo] = Res("none", "", Unset)

\* Two signature strings are equal up to the letter case of their characters.
EqualFold(x, y) ==
    /\ Len(x) = Len(y)
    /\ \A i \in 1..Len(x) : x[i] = y[i] \/ {x[i], y[i]} = {"a", "A"}

\* The request of handler h was read and carries the signature of its body.
Signed(h) == hbody[h] \in Bodies /\ EqualFold(Hmac(hbody[h]), hsig[h])

\* The body is a JSON document that decodes as an Event.
IsEvent(b) == b \in {"b1", "b2"}

EventIn(b) == IF b = "b1" THEN "e1" ELSE "e2"

\* C13: a request whose signature header differs from the HMAC of its body
\* (letter case aside) is rejected: the body is not decoded, the handler never
\* reaches the channel send, and it ends with a written status that is not 200.
C13_BadSignatureRejected ==
    \A h \in Hooks :
        (hbody[h] \in Bodies /\ ~EqualFold(Hmac(hbody[h]), hsig[h]) /\ hpc[h] # "read")
        => /\ hpc[h] = "done"
           /\ ~hdecoded[h]
           /\ hevent[h] = NoEvent
           /\ hstatus[h] \notin {NoStatus, 200}

C13_Witness ==
    /\ hpc["h1"] = "done" /\ hbody["h1"] = "b1" /\ hsig["h1"] = Hmac("b2")
    /\ hstatus["h1"] = 400 /\ ~hdecoded["h1"] /\ sentSeq = <<>>

\* C14: a request signed in any letter case whose body decodes as an Event is
\* answered 200 after its event has been sent on the channel, and every event
\* sent on the channel is received by the consumer.
C14_SignedEventDelivered ==
    /\ [](\A h \in Hooks :
            (Signed(h) /\ IsEvent(hbody[h]) /\ hpc[h] = "done")
            => /\ hstatus[h] = 200
               /\ hevent[h] = EventIn(hbody[h])
               /\ \E i \in 1..Len(sentSeq) : sentSeq[i] = hevent[h])
    /\ (Signed(HookSolo) /\ IsEvent(hbody[HookSolo]) /\ hpc[HookSolo] = "read")
            ~> (hpc[HookSolo] = "done" /\ hstatus[HookSolo] = 200)
    /\ \A n \in 1..MaxReq : (Len(sentSeq) >= n) ~> (Len(received) >= n)

C14_Witness ==
    /\ hpc["h1"] = "done" /\ hbody["h1"] = "b1" /\ hsig["h1"] = <<"A", "1">>
    /\ hstatus["h1"] = 200 /\ received = <<"e1">>

\* C15: a signed request whose body does not decode as an Event is answered
\* 400 and nothing is sent on the channel for it.
C15_UndecodableRejected ==
    /\ \A h \in Hooks :
            (Signed(h) /\ ~IsEvent(hbody[h]) /\ hpc[h] # "read")
            => /\ hpc[h] = "done"
               /\ hdecoded[h]
               /\ hevent[h] = NoEvent
               /\ hstatus[h] = 400
    /\ \A i \in 1..Len(sentSeq) : sentSeq[i] \in {"e1", "e2"}

C15_Witness ==
    /\ hpc["h1"] = "done" /\ hbody["h1"] = "bx" /\ hsig["h1"] = <<"A", "a">>
    /\ hstatus["h1"] = 400 /\ hdecoded["h1"] /\ sentSeq = <<>>

\* C16: the channel never buffers more events than the configured capacity
\* (100 by default); a handler whose send finds the buffer full leaves the
\* send only in a step in which the consumer receives; the events sent are
\* exactly the events received followed by the events buffered, in order.
C16_BoundedChannel ==
    /\ [](/\ Len(eventChan) <= eventBufferSize
          /\ eventBufferSize \in (0..MaxBuffer) \cup {100}
          /\ sentSeq = received \o eventChan
          /\ \A h \in Hooks : hstatus[h] = 200 => hevent[h] # NoEvent)
    /\ [][\A h \in Hooks :
            (hpc[h] = "send" /\ hpc'[h] # "send")
            => /\ Len(eventChan) >= eventBufferSize => received' # received
               /\ sentSeq' = Append(sentSeq, hevent[h])
               /\ hstatus'[h] = 200]_vars
    /\ [][/\ Len(sentSeq') >= Len(sentSeq)
          /\ sentSeq = SubSeq(sentSeq', 1, Len(sentSeq))
          /\ Len(received') >= Len(received)
          /\ received = SubSeq(received', 1, Len(received))]_vars

C16_Witness ==
    /\ eventBufferSize = 1 /\ Len(eventChan) = 1
    /\ hpc["h1"] = "send" /\ hpc["h2"] = "done" /\ hstatus["h2"] = 200

(* --------------------------- form field claims ------------------------ *)

\* FormField.UnmarshalJSON has returned for a document that passed line 61.
FieldDecoded == fpc = "decoded" /\ fdoc.wf

DateTags == {"date", "due_date", "creation_date"}

StringTags == {"text", "email", "phone", "note", "checkmark", "flag", "status"}

StructTags == {"catalog", "person", "author", "multiple_choice", "title", "form_link"}

\* The digits at positions i and i+1 of s read as a number.
TwoDigits(s, i) == 10 * DigitVal(s[i]) + DigitVal(s[i + 1])

AllDigits(s, idx) == \A i \in idx : s[i] \in Digit

\* s is YYYY-MM-DD and names a day that exists.
IsYMD(s) ==
    /\ Len(s) = 10 /\ AllDigits(s, {1, 2, 3, 4, 6, 7, 9, 10}) /\ s[5] = "-" /\ s[8] = "-"
    /\ TwoDigits(s, 6) \in 1..12
    /\ TwoDigits(s, 9) \in 1..DaysIn(TwoDigits(s, 6), 100 * TwoDigits(s, 1) + TwoDigits(s, 3))

\* s is HH:MM.
IsHM(s) ==
    /\ Len(s) = 5 /\ AllDigits(s, {1, 2, 4, 5}) /\ s[3] = ":"
    /\ TwoDigits(s, 1) < 24 /\ TwoDigits(s, 4) < 60

\* s is an RFC3339 time without fraction: YYYY-MM-DDTHH:MM:SS and Z or +HH:MM.
IsStamp(s) ==
    /\ Len(s) \in {20, 25}
    /\ IsYMD(SubSeq(s, 1, 10)) /\ s[11] = "T" /\ IsHM(SubSeq(s, 12, 16))
    /\ s[17] = ":" /\ AllDigits(s, {18, 19}) /\ TwoDigits(s, 18) < 60
    /\ IF Len(s) = 20 THEN s[20] = "Z"
       ELSE s[20] \in {"+", "-"} /\ IsHM(SubSeq(s, 21, 25))

\* The value string matches the pattern of the tag and names a real date/time.
MatchesPattern(tag, s) ==
    IF tag \in DateTags THEN IsYMD(s)
    ELSE IF tag = "time" THEN IsHM(s)
    ELSE IsStamp(s)

\* The same, the hour of a time or of an RFC3339 time written with one digit.
MatchesShortHour(tag, s) ==
    IF tag = "time" THEN IsHM(<<"0">> \o s)
    ELSE IF tag = "due_date_time"
      THEN Len(s) > 11 /\ IsStamp(SubSeq(s, 1, 11) \o <<"0">> \o SubSeq(s, 12, Len(s)))
    ELSE FALSE

\* The date/time a string that matches its pattern stands for.
Denoted(tag, s) ==
    LET ymd(t) == Time(100 * TwoDigits(t, 1) + TwoDigits(t, 3), TwoDigits(t, 6), TwoDigits(t, 9), 0, 0, 0, 0)
    IN
    IF tag \in DateTags THEN ymd(s)
    ELSE IF tag = "time" THEN Time(0, 1, 1, TwoDigits(s, 1), TwoDigits(s, 4), 0, 0)
    ELSE LET off == IF Len(s) = 20 THEN 0 ELSE 60 * TwoDigits(s, 21) + TwoDigits(s, 24)
         IN [ymd(s) EXCEPT !.h = TwoDigits(s, 12), !.mi = TwoDigits(s, 15), !.sec = TwoDigits(s, 18),
                           !.off = IF Len(s) = 25 /\ s[20] = "-" THEN 0 - off ELSE off]

\* C17: a field whose value is absent or null decodes without error and its
\* Value stays nil, whatever the type tag.
C17_MissingValueUnset ==
    (FieldDecoded /\ fdoc.value.k \in {"absent", "null"})
    => fres.err = "none" /\ fres.t = "nil"

\* The value has the shape of its tag: a string (of the tag's pattern for the
\* date and time tags), a number (an integer for step), an array of objects,
\* or an object made of members of the tag's value type.
HasTagShape(tag, v) ==
    IF tag \in StringTags THEN v.k = "str"
    ELSE IF tag \in DateTags \cup {"time", "due_date_time"} THEN v.k = "str" /\ MatchesPattern(tag, v.s)
    ELSE IF tag \in {"money", "number"} THEN v.k = "num"
    ELSE IF tag = "step" THEN v.k = "num" /\ v.lit = "1"
    ELSE IF tag \in {"file", "table"} THEN v.k = "arr" /\ \A i \in 1..Len(v.a) : v.a[i] = "obj"
    ELSE v.k = "obj" /\ \A m \in v.o : <<m[1], m[2]>> \in Schema(tag) \/ <<m[1], m[2]>> = <<"fields", "arr0">>

\* f.Value has the value type of the tag and the content of the value.
DecodedAs(tag, v) ==
    /\ fres.err = "none"
    /\ fres.t = ValueType(tag)
    /\ IF tag \in DateTags \cup {"time", "due_date_time"} THEN fres.t = "time.Time"
       ELSE IF tag \in StructTags
         THEN fres.j.k = "obj" /\ fres.j.o = {m \in v.o : \E f \in Schema(tag) : f[1] = m[1]}
       ELSE fres.j = v

Acceptable(tag, v) ==
    IF tag \in StringTags THEN v.k = "str"
    ELSE IF tag \in DateTags \cup {"time", "due_date_time"}
      THEN v.k = "str" /\ (MatchesPattern(tag, v.s) \/ MatchesShortHour(tag, v.s))
    ELSE IF tag \in {"money", "number"} THEN v.k = "num" /\ v.lit \in {"1", "1.5"}
    ELSE IF tag = "step" THEN v.k = "num" /\ v.lit = "1"
    ELSE IF tag \in {"file", "table"} THEN v.k = "arr" /\ \A i \in 1..Len(v.a) : v.a[i] \in {"obj", "null"}
    ELSE v.k = "obj"
         /\ \A m \in v.o : \A f \in Schema(tag) :
               f[1] = m[1] => (m[2] = f[2] \/ m[2] = "null" \/ (m[2] = "arr0" /\ f[2] \in {"ints", "strs"}))

C19_UnknownTagNeverFails ==
    (FieldDecoded /\ fdoc.type \notin DispatchTags)
    => /\ fres.err = "none"
       /\ IF fdoc.value.k \in {"absent", "null"} THEN fres.t = "nil"
          ELSE fres.t = "interface" /\ fres.j = fdoc.value

\* C19 (amended): the same for every value but a number without float64
\* value, which is an error.
C19_UnknownTagFailsOnRange ==
    (FieldDecoded /\ fdoc.type \notin DispatchTags)
    => IF fdoc.value.k = "num" /\ fdoc.value.lit = "1e999" THEN fres.err # "none"
       ELSE /\ fres.err = "none"
            /\ IF fdoc.value.k \in {"absent", "null"} THEN fres.t = "nil"
               ELSE fres.t = "interface" /\ fres.j = fdoc.value

C19_Witness ==
    /\ FieldDecoded /\ fdoc.type = "project" /\ fdoc.value = JObj(ObjPerson)
    /\ fres = Field("none", "interface", JObj(ObjPerson), NoTime)

RECURSIVE Fails(_)
Fails(n) ==
    IF n.kids = <<>> THEN UnmarshalJSON([wf |-> TRUE, type |-> n.type, value |-> n.value]).err # "none"
    ELSE \E i \in 1..Len(n.kids) : Fails(n.kids[i])

\* r is what decoding n gave: a leaf as FormField.UnmarshalJSON decodes it at
\* the top level, a field with nested fields failing exactly when one of them
\* fails, and complete when it does not fail.
RECURSIVE AsTopLevel(_, _)
AsTopLevel(n, r) ==
    IF n.kids = <<>>
      THEN /\ r.f = UnmarshalJSON([wf |-> TRUE, type |-> n.type, value |-> n.value])
           /\ r.err = r.f.err /\ r.t = r.f.t
    ELSE /\ r.t = ValueType(n.type)
         /\ Len(r.kids) \in 1..Len(n.kids)
         /\ \A i \in 1..Len(r.kids) : AsTopLevel(n.kids[i], r.kids[i])
         /\ (r.err # "none") = Fails(n)
         /\ r.err = "none" => Len(r.kids) = Len(n.kids)

\* C21: a field nested at any depth in a table row, a title or a
\* multiple_choice is decoded as the same field is at the top level, and when a
\* nested field fails every field around it and the document fail.
C21_NestedDecodedAlike ==
    npc = "decoded"
    => /\ Len(nres.kids) = 1
       /\ AsTopLevel(ntree, nres.kids[1])
       /\ (nres.err # "none") = Fails(ntree)

C21_Witness ==
    /\ npc = "decoded"
    /\ ntree = Container("table", <<Leaf("text", JStr(StrHello)),
                                    Container("title", <<Leaf("date", JStr(StrBadDate))>>)>>)
    /\ nres.err = "parse"
    /\ nres.kids[1].kids[1].err = "none"
    /\ nres.kids[1].kids[2].err = "parse"

\* C22: the error returned for a value that does not decode names the field it
\* comes from, by the field's id or by its type tag.
C22_ErrorNamesField ==
    (fpc = "decoded" /\ fdoc.wf /\ fres.err \notin {"none", "syntax"})
    => ferr.id = FieldID \/ ferr.tag = fdoc.type

\* C23: a field of a dispatch tag that was decoded, encoded and decoded again
\* has the value it had after the first decoding; for the date and time tags
\* the second decoding succeeds and gives the same time.
C23_RoundTrip ==
    (fpc = "redecoded" /\ fdoc.type \in DispatchTags)
    => IF fdoc.type \in DateTags \cup {"time", "due_date_time"}
         THEN fres2.err = "none" /\ fres2.tm = fres.tm
         ELSE fres2 = fres

\* The field-filter map has an entry.
HasFilters(r) == r.FieldFilters.entries # {}

\* The value of a static field is the zero value of its Go type.
ZeroValued(r, f) ==
    r[f[1]] = (IF f[3] = "int" THEN "0" ELSE IF f[3] = "bool" THEN "false"
               ELSE IF f[3] = "string" THEN "" ELSE "nil")

\* What a static field is expected to be written as.
Written(r, f) ==
    IF f[3] = "bool" THEN <<f[2], "str", "y">>
    ELSE <<f[2], IF f[3] = "int" THEN "num" ELSE IF f[3] = "slice" THEN "arr" ELSE "str", r[f[1]]>>

Keys(members) == {m[1] : m \in members}

\* C24: with a non-empty filter map the output is one object that has a key
\* fld<id> with the filter string for every entry, every non-zero static field
\* under its JSON name (the two flags as "y"), and no key of a zero static field.
C24_FlatObject ==
    (rpc = "marshalled" /\ HasFilters(rreq))
    => /\ \A e \in rreq.FieldFilters.entries : <<"fld" \o ToString(e[1]), "str", e[2]>> \in rout.members
       /\ \A f \in StaticFields :
            IF ZeroValued(rreq, f) THEN f[2] \notin Keys(rout.members)
            ELSE Written(rreq, f) \in rout.members
       /\ \A m, n \in rout.members : m[1] = n[1] => m = n
       /\ Cardinality(rout.members)
             = Cardinality(rreq.FieldFilters.entries)
                 + Cardinality({f \in StaticFields : ~ZeroValued(rreq, f)})

C24_Witness ==
    /\ rpc = "marshalled"
    /\ rreq.FieldFilters.entries = {<<7, "x">>, <<12, "">>}
    /\ rreq.IncludeArchived = "true" /\ rreq.Steps = "2" /\ rreq.FieldIDs = "[]"
    /\ rreq.Format = "" /\ rreq.ModifiedBefore = Stamp
    /\ {<<"fld7", "str", "x">>, <<"fld12", "str", "">>, <<"include_archived", "str", "y">>,
         <<"steps", "num", "2">>, <<"field_ids", "arr", "[]">>} \subseteq rout.members
    /\ "format" \notin Keys(rout.members)

\* The members that are not filters.
StaticPart(members) == {m \in members : \A e \in {7, 12} : m[1] # "fld" \o ToString(e)}

\* C25 as stated: the flattened serialization is used exactly when the filter
\* map has an entry, the static one for a nil or empty map, and the two write
\* the static fields of a request as the same keys and values.
C25_FlatOnlyWithFilters ==
    rpc = "marshalled"
    => /\ (rout.path = "flat") = HasFilters(rreq)
       /\ StaticPart(FlatMembers(rreq)) = StaticMembers(rreq)

\* C25 amended: the flattened serialization is used exactly when the filter
\* map is not nil, an empty map included; the two serializations write the
\* same keys and values, but for an empty FieldIDs slice that is not nil,
\* which only the flattened one writes (as []).
C25_FlatUnlessNil ==
    rpc = "marshalled"
    => /\ (rout.path = "flat") = ~rreq.FieldFilters.isNil
       /\ rout.path = "static" => rout.members = StaticMembers(rreq)
       /\ StaticPart(FlatMembers(rreq))
            = StaticMembers(rreq)
                \cup (IF rreq.FieldIDs = "[]" THEN {<<"field_ids", "arr", "[]">>} ELSE {})

C25_Witness ==
    /\ rpc = "marshalled"
    /\ ~rreq.FieldFilters.isNil /\ rreq.FieldFilters.entries = {}
    /\ rreq.SimpleFormat = "true" /\ rreq.FieldIDs = "[1]"
    /\ rout.path = "flat"
    /\ rout.members = StaticMembers(rreq)

\* The request built from the request value of operation k, when the
\* upload's reader still yields rd.
BodyFor(k, rd, r) ==
    /\ r.method = MethodOf(k) /\ r.path = PathOf(k)
    /\ IF k = "api" THEN r.enc = "none" /\ r.bytes = <<>> /\ r.part = ""
       ELSE IF k = "upload"
         THEN /\ r.enc = "multipart" /\ r.part = "file" /\ r.bytes = rd
              /\ r.ctype = "multipart/form-data"
       ELSE r.enc = "json" /\ r.bytes = JsonBytes /\ r.part = "" /\ r.ctype = "application/json"

\* C26: the body of the request is chosen from the request value alone: none
\* without a value, one multipart part "file" with the bytes the reader
\* yields for an upload, the JSON encoding with application/json otherwise.
C26_BodyFromValue ==
    [][\A c \in traced :
        (pc[c] = "build" /\ pc'[c] # "build" /\ ctx[c] = "none")
        => /\ BodyFor(kind[c], reader[c], req'[c])
           /\ reader'[c] = <<>>]_vars

C26_Witness ==
    /\ pc[Solo] = "do" /\ kind[Solo] = "upload" /\ accessToken # "" /\ ~retry[Solo]
    /\ req[Solo] = Request("POST", "/files/upload", "multipart", "multipart/form-data", "file", FileBytes)
    /\ reader[Solo] = <<>>

\* The last exchange of the history was an authentication of
\* getAndSetAccessToken that failed.
FailedAuth(l) ==
    /\ l # <<>>
    /\ l[Len(l)].ev \in {"auth-ok", "auth-fail"}
    /\ l[Len(l)].ev = "auth-fail" \/ l[Len(l)].st # 200

\* C27: when the authentication that performRequest runs for an empty token
\* or after a 401 fails, the call ends with an error, the stored token is left
\* as it was and the operation's request is not sent afterwards.
C27_FailedAuthEndsCall ==
    /\ [](\A c \in traced : \A i \in 1..Len(log[c]) :
            FailedAuth(SubSeq(log[c], 1, i))
            => /\ i = Len(log[c]) /\ pc[c] = "done"
               /\ result[c].err # "none" /\ result[c].val = Unset)
    /\ [][\A c \in traced :
            (log'[c] # log[c] /\ FailedAuth(log'[c]))
            => accessToken' = accessToken /\ pc'[c] = "done" /\ writer' = writer]_vars

C27_Witness ==
    /\ pc[Solo] = "done" /\ kind[Solo] = "api" /\ accessToken \in Tokens
    /\ log[Solo] = <<Ev("send", 401), Ev("auth-fail", 500)>>
    /\ result[Solo].err = "api"

\* C28: a call of the authentication endpoint sends one request, without an
\* Authorization header, whatever the stored token and the answer: it starts
\* no authentication of its own and no retry.
C28_AuthSendsOnce ==
    \A c \in traced :
        kind[c] = "auth"
        => /\ ctx[c] = "none" /\ ~retry[c]
           /\ hdr[c] = NoHeader
           /\ Len(log[c]) <= 1
           /\ \A i \in 1..Len(log[c]) : log[c][i].ev = "auth"
           /\ (pc[c] = "done") = (Len(log[c]) = 1)

C28_Witness ==
    /\ pc[Solo] = "done" /\ kind[Solo] = "auth" /\ accessToken \in Tokens
    /\ log[Solo] = <<Ev("auth", 401)>>

\* C29: a call that returns without error got status 200 in its last response.
C29_SuccessMeans200 ==
    \A c \in traced :
        (pc[c] = "done" /\ result[c].err = "none" /\ Complete(c))
        => lastResp[c].st = 200

\* C30: the request sent again after a 401 is the request that was sent
\* before: same method, path and body, for an upload the same file bytes.
C30_RetrySendsSameRequest ==
    \A c \in traced :
        (pc[c] = "do" /\ ctx[c] = "none" /\ retry[c] /\ sentReq[c] # NoRequestBuilt)
        => req[c] = sentReq[c]

\* The status the handler selects for a failed webhook request (src/api.go
\* 653, 664, 669): 500 for an unreadable body, 401 for a signature that does
\* not match, 400 for a body that does not decode.
Selected(h) ==
    IF hbody[h] = NoBody THEN 500
    ELSE IF ~Signed(h) THEN 401
    ELSE 400

\* C31: the status of a webhook error response is the status the handler
\* selected for the failure: 500 unreadable body, 401 signature mismatch,
\* 400 undecodable body.
C31_StatusAsSelected ==
    \A h \in Hooks :
        (hpc[h] = "done" /\ hstatus[h] # 200) => hstatus[h] = Selected(h)

\* The request served by h passed the signature verification and its body
\* decodes to an event.
Verified(h) == Signed(h) /\ IsEvent(hbody[h])

\* C32: under any interleaving of the requests, a request is answered 200
\* only when exactly one event, the one decoded from its body, has been placed
\* on the channel for it, and every event placed on the channel comes from one
\* request that passed signature verification and decoding.
C32_OneEventPerVerifiedRequest ==
    /\ [](/\ \A h \in Hooks : hstatus[h] = 200 => Verified(h) /\ hevent[h] = EventIn(hbody[h])
          /\ sentSeq = received \o eventChan)
    /\ [][/\ \A h \in Hooks :
                (hstatus'[h] = 200 /\ hstatus[h] # 200)
                => sentSeq' = Append(sentSeq, EventIn(hbody[h]))
          /\ sentSeq' # sentSeq
                => \E h \in Hooks :
                      /\ Verified(h) /\ hpc[h] = "send"
                      /\ sentSeq' = Append(sentSeq, EventIn(hbody[h]))
                      /\ hstatus[h] = NoStatus /\ hstatus'[h] = 200
                      /\ \A g \in Hooks \ {h} : hstatus'[g] = hstatus[g]]_vars

C32_Witness ==
    /\ hstatus["h1"] = 200 /\ hpc["h2"] = "send" /\ Verified("h2")
    /\ sentSeq = <<EventIn(hbody["h1"])>> /\ eventChan = sentSeq

\* The handler is at its send and the channel holds as many events as its
\* capacity (an unbuffered channel always does).
Blocked(h) == hpc[h] = "send" /\ Len(eventChan) >= eventBufferSize

\* C33: with a consumer that keeps receiving, a handler blocked at its send
\* on a full channel eventually places its event and answers 200; with no
\* consumer it stays blocked and never answers.
C33_BlockedUntilReceived ==
    /\ (consuming /\ Blocked(HookSolo))
          ~> (/\ hstatus[HookSolo] = 200
              /\ sentSeq # <<>> /\ sentSeq[Len(sentSeq)] = hevent[HookSolo])
    /\ [](Blocked(HookSolo) => hstatus[HookSolo] = NoStatus)
    /\ [][(~consuming /\ Blocked(HookSolo))
             => Blocked(HookSolo)' /\ hstatus'[HookSolo] = NoStatus]_vars

C33_Witness ==
    /\ consuming /\ eventBufferSize = 0
    /\ hstatus[HookSolo] = 200 /\ Len(sentSeq) = 2 /\ received = sentSeq

\* The callers whose authentication request, issued because they read an
\* empty token (lines 212-214), is with the server.
Authenticating == {c \in Calls : ctx[c] = "ensure" /\ pc[c] = "do"}

\* C34: calls that start together on a client without a token issue one
\* authentication request between them: no two of them have an authentication
\* request for the empty token under way at once.
C34_SingleAuthentication == Cardinality(Authenticating) <= 1

\* The callers that hold the token lock, and those waiting to acquire it.
Holders == readers \cup ({writer} \ {NoCall})

Waiting == {c \in Calls : pc[c] \in {"rlock1", "rlock2", "wlock"}}

\* C35: the token lock is held only across the read or the write of the token
\* itself, never while a request is built or with the server and never while
\* the holder acquires the lock again; so a call that waits for the lock
\* waits for a holder whose next step releases it.
C35_NoLockAcrossIO ==
    /\ \A c \in Holders : pc[c] \in {"rd1", "rd2", "wr"}
    /\ \A c \in Calls : pc[c] \in {"build", "do"} \cup Waiting => c \notin Holders
    /\ \A c \in Waiting :
          \/ IF pc[c] = "wlock" THEN Holders = {} ELSE RLockFree
          \/ \E d \in Holders \ {c} : pc[d] \in {"rd1", "rd2", "wr"}

C35_Witness ==
    /\ pc["c1"] = "wlock" /\ ctx["c1"] = "refresh"
    /\ pc["c2"] = "rd2" /\ readers = {"c2"} /\ retry["c2"]

\* C36: the Auth operation returns the access token of the authentication
\* response and leaves the stored token as it is; the stored token is
\* written only by getAndSetAccessToken, entered by another operation because
\* the token was empty or a 401 was answered.
C36_AuthLeavesTokenAlone ==
    /\ [](\A c \in traced :
            (/\ pc[c] = "done" /\ kind[c] = "auth" /\ result[c].err = "none"
             /\ lastResp[c].k = "tok" /\ lastResp[c].ct # "file")
            => result[c].val = lastResp[c].v)
    /\ [][/\ \A c \in traced : kind[c] = "auth" => accessToken' = accessToken
          /\ accessToken' # accessToken
                => \E c \in Calls :
                      /\ pc[c] = "wr" /\ ctx[c] \in {"ensure", "refresh"}
                      /\ kind[c] # "auth" /\ accessToken' = newTok[c]]_vars

C36_Witness ==
    /\ pc[Solo] = "done" /\ kind[Solo] = "auth"
    /\ result[Solo] = Res("none", "", "t2") /\ accessToken = "t1"

\* The last thing the operation of c did was to fail to construct its request.
RequestNotBuilt(c) ==
    /\ pc[c] = "done" /\ log[c] # <<>>
    /\ log[c][Len(log[c])] = Ev("no-request", Failed)

\* C37: an operation whose HTTP request could not be constructed returns an
\* error and has sent nothing for the request that failed.
C37_BuildFailureReturned ==
    \A c \in traced :
        RequestNotBuilt(c) => result[c].err \notin {"none", "pending"}

\* C38: the GET request that DownloadFile sends has no body: the buffer it
\* passes to receive the file is not encoded into the request.
C38_DownloadSendsNoBody ==
    \A c \in traced :
        (kind[c] = "download" /\ sentReq[c] # NoRequestBuilt)
        => /\ sentReq[c].method = "GET"
           /\ sentReq[c].enc = "none" /\ sentReq[c].bytes = <<>>
====
